---- MODULE Spec2Model ----
(***************************************************************************)
(* Section-sequenced proposal synthesis: the section orchestrator nodes,   *)
(* the proposal assembler, the text normalizers and the structural         *)
(* validator, modelled from the Python sources.                            *)
(*                                                                         *)
(* Text is a sequence of tokens.  A token is one character ("#", " ",      *)
(* "\n", ".", "*", a digit) or a lexeme that no pattern of the sources     *)
(* can split: a word ("txt", "INTRODUCCION", ...), the reasoning tags      *)
(* "<think>" and "</think>", the two halves "<thi" and "nk>" of an open    *)
(* tag, "FENCE" (a code fence of three backquotes), and "CJK" / "BULLET",  *)
(* each one character outside the allow-listed                             *)
(* ranges [\x00-\x7F\xC0-\xFF\u20AC\xA1-\xBF] (U+2022 is outside).  *)
(* Every regular expression of the sources is an operator over such        *)
(* sequences that returns what re.sub / re.findall return.                 *)
(***************************************************************************)
EXTENDS Integers, Sequences, FiniteSets, TLC

VARIABLES
  variant,                 \* which section node the graph wires in
  index,                   \* state["index"]: ordered section names
  tdr_info,                \* state["tdr_info"]
  current_section_index,   \* state["current_section_index"]
  sections,                \* state["sections"]
  generated_content,       \* state["generated_content"]
  proposal,                \* state["proposal"]
  evaluation,              \* state["evaluation"]
  next_step,               \* state["next_step"]
  messages,                \* state["messages"]
  raised,                  \* the node raised: the run is aborted
  calls,                   \* how each call of the generation backend ended
  prompts,                 \* the context of earlier sections handed to each generation
  fn_in,                   \* input of the pure function under check
  fn_out,                  \* its result
  fn_pc,                   \* how often it has been applied
  proposals_dir,           \* the files under documentos/Propuestas
  persist_directory,       \* the vector store persisted in propuestas_db
  rebuild                  \* where a worker that rebuilds the store stands

orchVars == <<variant, index, tdr_info, current_section_index, sections,
              generated_content, proposal, evaluation, next_step, messages, raised,
              calls, prompts>>
fnVars == <<fn_in, fn_out, fn_pc>>
storeVars == <<proposals_dir, persist_directory, rebuild>>
vars == <<orchVars, fnVars, storeVars>>

-----------------------------------------------------------------------------
(* Character classes *)

Digits == {"0", "1", "2", "3", "4", "5", "6", "7", "8", "9"}
IsDigit(t) == t \in Digits
IsNewline(t) == t = "\n"
IsSpace(t) == t \in {" ", "\n"}
IsForeign(t) == t \in {"CJK", "BULLET"}

DigitValue(t) ==
  CASE t = "0" -> 0 [] t = "1" -> 1 [] t = "2" -> 2 [] t = "3" -> 3 [] t = "4" -> 4
    [] t = "5" -> 5 [] t = "6" -> 6 [] t = "7" -> 7 [] t = "8" -> 8 [] t = "9" -> 9

DigitToken(n) ==
  CASE n = 0 -> "0" [] n = 1 -> "1" [] n = 2 -> "2" [] n = 3 -> "3" [] n = 4 -> "4"
    [] n = 5 -> "5" [] n = 6 -> "6" [] n = 7 -> "7" [] n = 8 -> "8" [] n = 9 -> "9"

\* str(n) for the small numbers the model uses
NumText(n) == IF n < 10 THEN <<DigitToken(n)>> ELSE <<DigitToken(n \div 10), DigitToken(n % 10)>>

\* the first position >= i that is not whitespace (Len(s)+1 when there is none)
SpaceEnd(s, i) ==
  CHOOSE j \in i..(Len(s) + 1) :
    /\ \A k \in i..(j - 1) : IsSpace(s[k])
    /\ (j = Len(s) + 1 \/ ~IsSpace(s[j]))

DigitEnd(s, i) ==
  CHOOSE j \in i..(Len(s) + 1) :
    /\ \A k \in i..(j - 1) : IsDigit(s[k])
    /\ (j = Len(s) + 1 \/ ~IsDigit(s[j]))

\* the position of the first "\n" at or after i (Len(s)+1 when there is none)
LineEnd(s, i) ==
  CHOOSE j \in i..(Len(s) + 1) :
    /\ \A k \in i..(j - 1) : ~IsNewline(s[k])
    /\ (j = Len(s) + 1 \/ IsNewline(s[j]))

\* s starts with the tokens of p at position i
HasAt(s, i, p) ==
  /\ i + Len(p) - 1 <= Len(s)
  /\ \A k \in 1..Len(p) : s[i + k - 1] = p[k]

\* the value of the digit run s[i..j-1]
RECURSIVE DigitsValue(_, _, _)
DigitsValue(s, i, j) ==
  IF j <= i THEN 0 ELSE 10 * DigitsValue(s, i, j - 1) + DigitValue(s[j - 1])

\* str.strip()
Strip(s) ==
  IF \A k \in 1..Len(s) : IsSpace(s[k]) THEN <<>>
  ELSE LET a == CHOOSE i \in 1..Len(s) : ~IsSpace(s[i]) /\ \A k \in 1..(i - 1) : IsSpace(s[k])
           b == CHOOSE j \in 1..Len(s) : ~IsSpace(s[j]) /\ \A k \in (j + 1)..Len(s) : IsSpace(s[k])
       IN SubSeq(s, a, b)

\* the elements of a sequence
Range(list) == {list[k] : k \in 1..Len(list)}

\* the least number of a non-empty set
Lowest(S) == CHOOSE j \in S : \A k \in S : j <= k

\* "sep".join(list)
RECURSIVE Join(_, _)
Join(list, sep) ==
  IF Len(list) = 0 THEN <<>>
  ELSE IF Len(list) = 1 THEN list[1]
  ELSE list[1] \o sep \o Join(Tail(list), sep)

\* str.split("\n")[0]
FirstLine(s) == SubSeq(s, 1, LineEnd(s, 1) - 1)

-----------------------------------------------------------------------------
(* re.sub(r'<think>.*?</think>', '', text, flags=re.DOTALL) *)

\* the end (exclusive) of an open tag at i, 0 when there is none
OpenTagEnd(s, i) ==
  IF s[i] = "<think>" THEN i + 1
  ELSE IF HasAt(s, i, <<"<thi", "nk>">>) THEN i + 2
  ELSE 0

\* the end (exclusive) of the first close tag at or after i, 0 when there is none
FirstCloseEnd(s, i) ==
  IF \E j \in i..Len(s) : s[j] = "</think>"
  THEN 1 + (CHOOSE j \in i..Len(s) : s[j] = "</think>" /\ \A k \in i..(j - 1) : s[k] # "</think>")
  ELSE 0

\* a span opens at i: an open tag with a close tag after it
SpanOpensAt(s, i) == OpenTagEnd(s, i) # 0 /\ FirstCloseEnd(s, OpenTagEnd(s, i)) # 0

\* the text from i on, without the spans: up to the first span, then what
\* follows its close tag
RECURSIVE RemoveThinkFrom(_, _)
RemoveThinkFrom(s, i) ==
  LET opens == {j \in i..Len(s) : SpanOpensAt(s, j)}
  IN IF opens = {} THEN SubSeq(s, i, Len(s))
     ELSE SubSeq(s, i, Lowest(opens) - 1)
          \o RemoveThinkFrom(s, FirstCloseEnd(s, OpenTagEnd(s, Lowest(opens))))

RemoveThink(s) == RemoveThinkFrom(s, 1)

(* re.sub(r'[^\x00-\x7F\xC0-\xFF\u20AC\xA1-\xBF]+', '', text) *)
StripForeign(s) == SelectSeq(s, LAMBDA t : ~IsForeign(t))

(* re.sub(r'\n\s*\n\s*\n+', '\n\n', text): in a whitespace run, the stretch  *)
(* from a newline to the last newline of the run, when it holds three        *)
(* newlines or more, becomes two newlines.                                   *)
NewlinesIn(s, i, j) == Cardinality({k \in i..(j - 1) : IsNewline(s[k])})

LastNewlineBefore(s, i, j) ==
  CHOOSE k \in i..(j - 1) : IsNewline(s[k]) /\ \A m \in (k + 1)..(j - 1) : ~IsNewline(s[m])

\* the pattern matches at i
BlankLinesAt(s, i) == IsNewline(s[i]) /\ NewlinesIn(s, i, SpaceEnd(s, i)) >= 3

RECURSIVE CollapseFrom(_, _)
CollapseFrom(s, i) ==
  LET found == {j \in i..Len(s) : BlankLinesAt(s, j)}
      first == Lowest(found)
  IN IF found = {} THEN SubSeq(s, i, Len(s))
     ELSE SubSeq(s, i, first - 1) \o <<"\n", "\n">>
          \o CollapseFrom(s, LastNewlineBefore(s, first, SpaceEnd(s, first)) + 1)

CollapseBlankLines(s) == CollapseFrom(s, 1)

-----------------------------------------------------------------------------
(* Python's re on token sequences.  A pattern is a sequence of atoms:        *)
(*   [kind |-> "set", toks, neg, min, max, lazy]  a quantified character     *)
(*       class: the tokens in toks (neg: the tokens not in toks);            *)
(*   [kind |-> "bol"] ^ under MULTILINE;  [kind |-> "eol"] $ under MULTILINE;*)
(*   [kind |-> "nahead", pat]  (?!pat);                                      *)
(*   [kind |-> "alt", pats]  (p1|p2|...), each alternative a sequence of     *)
(*       single-token atoms, tried in order.                                 *)
(* A match is tried as the backtracking matcher tries it: a greedy atom      *)
(* takes the most it can and gives back one token at a time, a lazy atom     *)
(* takes the least and takes one more at a time; an atom with which the     *)
(* rest of the pattern matches at no count fails at once.                    *)

Unbounded == 99

One(toks) == [kind |-> "set", toks |-> toks, neg |-> FALSE, min |-> 1, max |-> 1, lazy |-> FALSE]
Plus(toks) == [kind |-> "set", toks |-> toks, neg |-> FALSE, min |-> 1, max |-> Unbounded, lazy |-> FALSE]
Star(toks) == [kind |-> "set", toks |-> toks, neg |-> FALSE, min |-> 0, max |-> Unbounded, lazy |-> FALSE]
OneNot(toks) == [kind |-> "set", toks |-> toks, neg |-> TRUE, min |-> 1, max |-> 1, lazy |-> FALSE]
PlusNot(toks) == [kind |-> "set", toks |-> toks, neg |-> TRUE, min |-> 1, max |-> Unbounded, lazy |-> FALSE]
StarNot(toks) == [kind |-> "set", toks |-> toks, neg |-> TRUE, min |-> 0, max |-> Unbounded, lazy |-> FALSE]
StarNotLazy(toks) == [kind |-> "set", toks |-> toks, neg |-> TRUE, min |-> 0, max |-> Unbounded, lazy |-> TRUE]
PlusNotLazy(toks) == [kind |-> "set", toks |-> toks, neg |-> TRUE, min |-> 1, max |-> Unbounded, lazy |-> TRUE]
Bol == [kind |-> "bol"]
Eol == [kind |-> "eol"]
NotAhead(pat) == [kind |-> "nahead", pat |-> pat]
Alt(pats) == [kind |-> "alt", pats |-> pats]

\* the literal tokens of p, one atom each
Lit(p) == [k \in 1..Len(p) |-> One({p[k]})]

Space == {" ", "\n"}          \* \s
Newline == {"\n"}

InClass(a, t) == IF a.neg THEN t \notin a.toks ELSE t \in a.toks

\* how many tokens from i on the class atom a can take
ClassRun(a, s, i) ==
  CHOOSE c \in 0..(Len(s) + 1 - i) :
    /\ c <= a.max
    /\ \A k \in i..(i + c - 1) : InClass(a, s[k])
    /\ (c = a.max \/ i + c > Len(s) \/ ~InClass(a, s[i + c]))

NoMatch == [ok |-> FALSE, ends |-> <<>>]

\* the match of atoms k.. of pat at position i: ends[j] is the position after
\* atom k+j-1
RECURSIVE MatchAt(_, _, _, _)
RECURSIVE TryCount(_, _, _, _, _, _)
RECURSIVE TryAlt(_, _, _, _, _)
MatchAt(pat, k, s, i) ==
  IF k > Len(pat) THEN [ok |-> TRUE, ends |-> <<>>]
  ELSE LET a == pat[k]
           holds == CASE a.kind = "bol" -> i = 1 \/ s[i - 1] = "\n"
                      [] a.kind = "eol" -> i = Len(s) + 1 \/ s[i] = "\n"
                      [] a.kind = "nahead" -> ~MatchAt(a.pat, 1, s, i).ok
                      [] OTHER -> FALSE
           rest == MatchAt(pat, k + 1, s, i)
       IN IF a.kind = "set"
          THEN LET run == ClassRun(a, s, i)
               IN IF run < a.min THEN NoMatch
                  ELSE IF \A c \in a.min..run : ~MatchAt(pat, k + 1, s, i + c).ok THEN NoMatch
                  ELSE TryCount(pat, k, s, i, IF a.lazy THEN a.min ELSE run, run)
          ELSE IF a.kind = "alt" THEN TryAlt(pat, k, s, i, 1)
          ELSE IF holds /\ rest.ok THEN [ok |-> TRUE, ends |-> <<i>> \o rest.ends]
          ELSE NoMatch

TryCount(pat, k, s, i, c, run) ==
  IF c < pat[k].min \/ c > run THEN NoMatch
  ELSE LET rest == MatchAt(pat, k + 1, s, i + c)
       IN IF rest.ok THEN [ok |-> TRUE, ends |-> <<i + c>> \o rest.ends]
          ELSE TryCount(pat, k, s, i, IF pat[k].lazy THEN c + 1 ELSE c - 1, run)

TryAlt(pat, k, s, i, n) ==
  IF n > Len(pat[k].pats) THEN NoMatch
  ELSE LET one == MatchAt(pat[k].pats[n], 1, s, i)
           e == IF Len(one.ends) = 0 THEN i ELSE one.ends[Len(one.ends)]
           rest == IF one.ok THEN MatchAt(pat, k + 1, s, e) ELSE NoMatch
       IN IF rest.ok THEN [ok |-> TRUE, ends |-> <<e>> \o rest.ends]
          ELSE TryAlt(pat, k, s, i, n + 1)

\* the end (exclusive) of the match found at i
MatchEnd(m, i) == IF Len(m.ends) = 0 THEN i ELSE m.ends[Len(m.ends)]

\* re.finditer(pat, s): the matches [start, ends], leftmost first, not
\* overlapping; after an empty match the search moves on by one token
RECURSIVE FindFrom(_, _, _)
FoundThen(pat, s, first, m) ==
  <<[start |-> first, ends |-> m.ends]>>
  \o FindFrom(pat, s, IF MatchEnd(m, first) = first THEN first + 1 ELSE MatchEnd(m, first))

FirstOf(pat, s, found) ==
  IF found = {} THEN <<>> ELSE FoundThen(pat, s, Lowest(found), MatchAt(pat, 1, s, Lowest(found)))

FindFrom(pat, s, i) == FirstOf(pat, s, {j \in i..(Len(s) + 1) : MatchAt(pat, 1, s, j).ok})

FindIter(pat, s) == FindFrom(pat, s, 1)

\* re.search(pat, s) is not None
Search(pat, s) == \E i \in 1..(Len(s) + 1) : MatchAt(pat, 1, s, i).ok

\* what atom k of the match m took
Taken(s, m, k) == SubSeq(s, IF k = 1 THEN m.start ELSE m.ends[k - 1], m.ends[k] - 1)

\* what atoms j..k of the match m took
TakenSpan(s, m, j, k) == SubSeq(s, IF j = 1 THEN m.start ELSE m.ends[j - 1], m.ends[k] - 1)

\* re.sub: s with match ms[n] replaced by reps[n]
RECURSIVE SpliceFrom(_, _, _, _, _)
SpliceFrom(s, ms, reps, n, i) ==
  IF n > Len(ms) THEN SubSeq(s, i, Len(s))
  ELSE SubSeq(s, i, ms[n].start - 1) \o reps[n]
       \o SpliceFrom(s, ms, reps, n + 1, MatchEnd(ms[n], ms[n].start))

Splice(s, ms, reps) == SpliceFrom(s, ms, reps, 1, 1)

\* re.sub(pat, '', s)
RemoveMatches(pat, s) ==
  LET ms == FindIter(pat, s)
  IN Splice(s, ms, [k \in 1..Len(ms) |-> <<>>])

\* str.startswith(p)
StartsWith(s, p) == HasAt(s, 1, p)

-----------------------------------------------------------------------------
(* The final-pass normalizer of the combine node *)

\* what is left of a token once a pattern has consumed its first character
Behead(t) ==
  CASE t = "<think>" -> <<"think>">>
    [] t = "</think>" -> <<"/think>">>
    [] t = "<thi" -> <<"thi">>
    [] t = "nk>" -> <<"k>">>
    [] t \in {"#", " ", "\n", ".", "*", "-", ":", "x", "T", "X", "Y", "CJK", "BULLET"} \cup Digits -> <<>>
    [] OTHER -> <<"REST">>

\* the end (exclusive) of a match of ##\s+(\d+)\.\s+ at i, 0 when there is none
SectionNumberMatchEnd(s, i) ==
  IF ~HasAt(s, i, <<"#", "#">>) THEN 0
  ELSE LET w == SpaceEnd(s, i + 2)
           d == DigitEnd(s, w)
       IN IF w > i + 2 /\ d > w /\ d <= Len(s) /\ s[d] = "." /\ SpaceEnd(s, d + 1) > d + 1
          THEN SpaceEnd(s, d + 1)
          ELSE 0

\* re.findall(r'##\s+(\d+)\.\s+', proposal): the digit runs, in document order
RECURSIVE FindSectionNumbersFrom(_, _)
FindSectionNumbersFrom(s, i) ==
  LET found == {j \in i..Len(s) : SectionNumberMatchEnd(s, j) # 0}
      first == Lowest(found)
  IN IF found = {} THEN <<>>
     ELSE <<SubSeq(s, SpaceEnd(s, first + 2), DigitEnd(s, SpaceEnd(s, first + 2)) - 1)>>
          \o FindSectionNumbersFrom(s, SectionNumberMatchEnd(s, first))

FindSectionNumbers(s) == FindSectionNumbersFrom(s, 1)

\* a match of ###\s+[^\d] at i: [end (exclusive), what the match leaves of its
\* last token]; end 0 when there is none.  \s+ gives back its last character
\* when a digit or the end of the text follows the whitespace run.
SubsectionMatch(s, i) ==
  IF ~HasAt(s, i, <<"#", "#", "#">>) THEN [end |-> 0, rest |-> <<>>]
  ELSE LET w == SpaceEnd(s, i + 3)
       IN IF w = i + 3 THEN [end |-> 0, rest |-> <<>>]
          ELSE IF w <= Len(s) /\ ~IsDigit(s[w]) THEN [end |-> w + 1, rest |-> Behead(s[w])]
          ELSE IF w > i + 4 THEN [end |-> w, rest |-> <<>>]
          ELSE [end |-> 0, rest |-> <<>>]

\* re.sub(r'###\s+[^\d]', f'### {section_num}.', proposal)
RECURSIVE PrefixSubsectionsFrom(_, _, _)
PrefixSubsectionsFrom(s, num, i) ==
  LET found == {j \in i..Len(s) : SubsectionMatch(s, j).end # 0}
      first == Lowest(found)
      m == SubsectionMatch(s, first)
  IN IF found = {} THEN SubSeq(s, i, Len(s))
     ELSE SubSeq(s, i, first - 1) \o <<"#", "#", "#", " ">> \o num \o <<".">> \o m.rest
          \o PrefixSubsectionsFrom(s, num, m.end)

\* for section_num in sections: proposal = re.sub(...)
RECURSIVE PrefixSubsectionsForEach(_, _)
PrefixSubsectionsForEach(s, nums) ==
  IF Len(nums) = 0 THEN s
  ELSE PrefixSubsectionsForEach(PrefixSubsectionsFrom(s, nums[1], 1), Tail(nums))

\* re.sub(r'(?<=\n)\*\s+', '- ', text) for the marker "*" (or the marker given)
\* the marker stands after a newline and before whitespace
BulletAt(s, marker, i) ==
  s[i] = marker /\ i > 1 /\ IsNewline(s[i - 1]) /\ SpaceEnd(s, i + 1) > i + 1

RECURSIVE NormalizeBulletFrom(_, _, _)
NormalizeBulletFrom(s, marker, i) ==
  LET found == {j \in i..Len(s) : BulletAt(s, marker, j)}
      first == Lowest(found)
  IN IF found = {} THEN SubSeq(s, i, Len(s))
     ELSE SubSeq(s, i, first - 1) \o <<"-", " ">>
          \o NormalizeBulletFrom(s, marker, SpaceEnd(s, first + 1))

NormalizeBullets(s) == NormalizeBulletFrom(NormalizeBulletFrom(s, "*", 1), "BULLET", 1)

improve_proposal_coherence(p) ==
  LET untagged == RemoveThink(p)
      latin == StripForeign(untagged)
      prefixed == PrefixSubsectionsForEach(latin, FindSectionNumbers(latin))
      collapsed == CollapseBlankLines(prefixed)
  IN NormalizeBullets(collapsed)

-----------------------------------------------------------------------------
(* The structural validator *)

\* str.upper() of the words of the model; every other token is its own upper case
Upper(t) ==
  CASE t = "introduccion" -> "INTRODUCCION"
    [] t = "introducción" -> "INTRODUCCIÓN"
    [] t = "objetivos" -> "OBJETIVOS"
    [] t = "alcance" -> "ALCANCE"
    [] t = "otros" -> "OTROS"
    [] t = "error" -> "ERROR"
    [] t = "Error" -> "ERROR"
    [] t = "txt" -> "TXT"
    [] t = "x" -> "X"
    [] t = "plan" -> "PLAN"
    [] t = "de" -> "DE"
    [] t = "trabajo" -> "TRABAJO"
    [] OTHER -> t

\* the words of the model that a literal word matches under re.IGNORECASE
Words ==
  { "introduccion", "INTRODUCCION", "introducción", "INTRODUCCIÓN", "objetivos", "OBJETIVOS",
    "alcance", "ALCANCE", "otros", "OTROS", "PROPUESTA", "TÉCNICA", "METODOLOGÍA",
    "METODOLOGIA", "PLAN", "DE", "TRABAJO", "CRONOGRAMA", "ENTREGABLES", "RECURSOS",
    "PERSONAL", "RIESGOS", "GESTIÓN", "CALIDAD", "NORMATIVAS", "ESTÁNDARES", "EXPERIENCIA",
    "PROYECTOS", "SIMILARES", "ANEXOS", "T", "x", "txt",
    "INTRODUCCION_Y_CONTEXTO", "OBJETIVOS_GENERALES", "OBJETIVOS_ESPECIFICOS",
    "ALCANCE_DEL_TRABAJO", "METODOLOGIA_PROPUESTA", "PLAN_DE_TRABAJO_Y_CRONOGRAMA",
    "RECURSOS_HUMANOS_Y_TECNICOS", "GESTION_DE_RIESGOS", "PLAN_DE_CALIDAD",
    "NORMATIVAS_Y_ESTANDARES_APLICABLES", "EXPERIENCIA_RELEVANTE", "ANEXOS_TECNICOS" }

IgnoreCase(w) == One({t \in Words : Upper(t) = Upper(w)})

\* the literal words ws, one space between them, under re.IGNORECASE
WordsPat(ws) ==
  [k \in 1..(2 * Len(ws) - 1) |-> IF k % 2 = 1 THEN IgnoreCase(ws[(k + 1) \div 2]) ELSE One({" "})]

\* r"##\s+\d+\.\s+(A|B)"
NumberedHeading(alternatives) ==
  Lit(<<"#", "#">>) \o <<Plus(Space), Plus(Digits), One({"."}), Plus(Space), Alt(alternatives)>>

\* self.validation_rules["structure"]
StructureRules ==
  << [name |-> "title", required |-> TRUE,
      pattern |-> <<Bol, One({"#"}), Plus(Space)>> \o WordsPat(<<"PROPUESTA", "TÉCNICA">>)],
     [name |-> "intro", required |-> TRUE,
      pattern |-> NumberedHeading(<<WordsPat(<<"INTRODUCCIÓN">>)>>)],
     [name |-> "objectives", required |-> TRUE,
      pattern |-> NumberedHeading(<<WordsPat(<<"OBJETIVOS">>)>>)],
     [name |-> "scope", required |-> TRUE,
      pattern |-> NumberedHeading(<<WordsPat(<<"ALCANCE">>), WordsPat(<<"ALCANCE", "DEL", "SERVICIO">>)>>)],
     [name |-> "methodology", required |-> TRUE,
      pattern |-> NumberedHeading(<<WordsPat(<<"METODOLOGIA">>), WordsPat(<<"METODOLOGÍA">>)>>)],
     [name |-> "plan", required |-> TRUE,
      pattern |-> NumberedHeading(<<WordsPat(<<"PLAN", "DE", "TRABAJO">>), WordsPat(<<"CRONOGRAMA">>)>>)],
     [name |-> "deliverables", required |-> TRUE,
      pattern |-> NumberedHeading(<<WordsPat(<<"ENTREGABLES">>)>>)],
     [name |-> "resources", required |-> TRUE,
      pattern |-> NumberedHeading(<<WordsPat(<<"RECURSOS">>), WordsPat(<<"PERSONAL">>)>>)],
     [name |-> "risks", required |-> TRUE,
      pattern |-> NumberedHeading(<<WordsPat(<<"RIESGOS">>), WordsPat(<<"GESTIÓN", "DE", "RIESGOS">>)>>)],
     [name |-> "quality", required |-> TRUE,
      pattern |-> NumberedHeading(<<WordsPat(<<"CALIDAD">>), WordsPat(<<"PLAN", "DE", "CALIDAD">>)>>)],
     [name |-> "standards", required |-> TRUE,
      pattern |-> NumberedHeading(<<WordsPat(<<"NORMATIVAS">>), WordsPat(<<"ESTÁNDARES">>)>>)],
     [name |-> "experience", required |-> TRUE,
      pattern |-> NumberedHeading(<<WordsPat(<<"EXPERIENCIA">>), WordsPat(<<"PROYECTOS", "SIMILARES">>)>>)],
     [name |-> "annexes", required |-> FALSE,
      pattern |-> NumberedHeading(<<WordsPat(<<"ANEXOS">>), WordsPat(<<"ANEXOS", "TÉCNICOS">>)>>)] >>

\* the rules of the structure group that the text breaks, in rule order
MissingSections(text) ==
  SelectSeq([k \in 1..Len(StructureRules) |-> StructureRules[k]],
            LAMBDA rule : rule.required /\ ~Search(rule.pattern, text))

StructureIssues(text) ==
  LET missing == MissingSections(text)
  IN [k \in 1..Len(missing) |-> [kind |-> "missing_section", name |-> missing[k].name]]

\* max_occurrences of the rule code_blocks
MaxCodeFences == 5

\* r'##\s+\d+\.\s+[^\n]+\n\s*\n\s*##'
EmptySectionPattern ==
  Lit(<<"#", "#">>)
    \o <<Plus(Space), Plus(Digits), One({"."}), Plus(Space), PlusNot(Newline),
         One(Newline), Star(Space), One(Newline), Star(Space)>>
    \o Lit(<<"#", "#">>)

HasThinkSpan(text) ==
  \E i \in 1..Len(text) : OpenTagEnd(text, i) # 0 /\ FirstCloseEnd(text, OpenTagEnd(text, i)) # 0

\* the rules of the content group with "allowed": False that find a match
ForbiddenFound(text) ==
  (IF \E k \in 1..Len(text) : IsForeign(text[k]) THEN <<"foreign_chars">> ELSE <<>>)
    \o (IF HasThinkSpan(text) THEN <<"think_tags">> ELSE <<>>)
    \o (IF Search(EmptySectionPattern, text) THEN <<"empty_sections">> ELSE <<>>)

CodeFenceCount(text) == Cardinality({k \in 1..Len(text) : text[k] = "FENCE"})

\* the issues of the content group, in rule order: the forbidden contents, then
\* too many code fences; the rule tables has "min_occurrences": 0, which no
\* count is below
ContentIssues(text) ==
  LET forbidden == ForbiddenFound(text)
  IN [k \in 1..Len(forbidden) |-> [kind |-> "forbidden_content", name |-> forbidden[k]]]
       \o (IF CodeFenceCount(text) > MaxCodeFences
           THEN <<[kind |-> "too_many", name |-> "code_blocks", count |-> CodeFenceCount(text)]>>
           ELSE <<>>)

\* re.findall(r'##\s+(\d+)\.', text, re.MULTILINE) as integers
ChapterPattern == Lit(<<"#", "#">>) \o <<Plus(Space), Plus(Digits), One({"."})>>

ChapterNumbers(text) ==
  LET ms == FindIter(ChapterPattern, text)
  IN [k \in 1..Len(ms) |-> DigitsValue(text, ms[k].ends[3], ms[k].ends[4])]

\* re.findall(r'###\s+(\d+\.\d+)', text, re.MULTILINE) as <<chapter, section>>
SubsectionPattern ==
  Lit(<<"#", "#", "#">>) \o <<Plus(Space), Plus(Digits), One({"."}), Plus(Digits)>>

SubsectionLabels(text) ==
  LET ms == FindIter(SubsectionPattern, text)
  IN [k \in 1..Len(ms) |-> <<DigitsValue(text, ms[k].ends[4], ms[k].ends[5]),
                             DigitsValue(text, ms[k].ends[6], ms[k].ends[7])>>]

\* list(range(1, n + 1))
Range1(n) == [k \in 1..n |-> k]

SequentialIssues(text) ==
  LET numbers == ChapterNumbers(text)
  IN IF numbers # Range1(Len(numbers))
     THEN <<[kind |-> "not_sequential", numbers |-> numbers, expected |-> Range1(Len(numbers))]>>
     ELSE <<>>

\* the loop over the subsection labels: the issues, given the previous label
\* (<<0, 0>> stands for None before the first label)
RECURSIVE HierarchyIssuesFrom(_, _, _)
HierarchyIssuesFrom(labels, k, previous) ==
  IF k > Len(labels) THEN <<>>
  ELSE LET current == labels[k]
       IN IF previous = <<0, 0>> THEN HierarchyIssuesFrom(labels, k + 1, current)
          ELSE IF current[1] = previous[1]
          THEN (IF current[2] # previous[2] + 1
                THEN <<[kind |-> "subsection_not_sequential", previous |-> previous, current |-> current]>>
                ELSE <<>>)
               \o HierarchyIssuesFrom(labels, k + 1, current)
          ELSE IF current[1] > previous[1]
          THEN (IF current[2] # 1
                THEN <<[kind |-> "first_subsection_not_1", current |-> current]>>
                ELSE <<>>)
               \o HierarchyIssuesFrom(labels, k + 1, current)
          ELSE <<[kind |-> "chapter_backwards", previous |-> previous, current |-> current]>>
               \o HierarchyIssuesFrom(labels, k + 1, previous)

HierarchyIssues(text) == HierarchyIssuesFrom(SubsectionLabels(text), 1, <<0, 0>>)

NumberingIssues(text) == SequentialIssues(text) \o HierarchyIssues(text)

\* an overall flag that leaves the numbering group out
OverallValidWithoutNumbering(structure_valid, content_valid, numbering_valid) ==
  structure_valid /\ content_valid

\* results["is_valid"] = results["structure"]["valid"] and
\*     results["content"]["valid"] and results["numbering"]["valid"]
OverallValid(structure_valid, content_valid, numbering_valid) ==
  structure_valid /\ content_valid /\ numbering_valid

validate_proposal(text) ==
  LET structure == StructureIssues(text)
      forbidden == ForbiddenFound(text)
      content == ContentIssues(text)
      numbering == NumberingIssues(text)
      structure_valid == Len(structure) = 0
      content_valid == Len(forbidden) = 0
      numbering_valid == Len(numbering) = 0
  IN [ is_valid |-> OverallValid(structure_valid, content_valid, numbering_valid),
       structure |-> [valid |-> structure_valid, issues |-> structure],
       content |-> [valid |-> content_valid, issues |-> content],
       numbering |-> [valid |-> numbering_valid, issues |-> numbering] ]

-----------------------------------------------------------------------------
(* The proposal assembler *)

\* a dict entry: a key that is missing, a key with a text
Absent == [present |-> FALSE, value |-> <<>>]
Present(v) == [present |-> TRUE, value |-> v]

\* dict.get(key, default) on the metadata record
MetaGet(metadata, key, default) ==
  IF metadata[key].present THEN metadata[key].value ELSE default

\* the title block of the f-string: title, document code, date, project, client
TitleBlock(fecha, titulo_proyecto, cliente) ==
  << "#", " ", "PROPUESTA", " ", "TÉCNICA", "\n",
     "**Documento: PKS-537 RQ-01**", "\n", "**Fecha: " >> \o fecha
    \o << "**", "\n", "**Proyecto: " >> \o titulo_proyecto
    \o << "**", "\n", "**Cliente: " >> \o cliente
    \o << "**", "\n", "\n", "---", "\n", "\n" >>

\* r"##\s+(\d+)\.\s+([^\n]+)"
TocPattern ==
  Lit(<<"#", "#">>) \o <<Plus(Space), Plus(Digits), One({"."}), Plus(Space), PlusNot(Newline)>>

\* str.replace("#", "")
RemoveHashes(s) == SelectSeq(s, LAMBDA t : t # "#")

\* a contents builder that numbers every line by the section's position
\* instead of the number in its heading
TocItemsOfByPosition(section, i) ==
  LET ms == FindIter(TocPattern, section)
  IN IF Len(ms) > 0
     THEN [k \in 1..Len(ms) |-> NumText(i) \o <<".", " ">> \o Taken(section, ms[k], 7)]
     ELSE <<NumText(i) \o <<".", " ">> \o Strip(RemoveHashes(FirstLine(section)))>>

\* the table-of-contents lines of section i: one per numbered heading found in
\* it, else the position and the first line without its "#"
TocItemsOf(section, i) ==
  LET ms == FindIter(TocPattern, section)
  IN IF Len(ms) > 0
     THEN [k \in 1..Len(ms) |-> Taken(section, ms[k], 4) \o <<".", " ">> \o Taken(section, ms[k], 7)]
     ELSE <<NumText(i) \o <<".", " ">> \o Strip(RemoveHashes(FirstLine(section)))>>

RECURSIVE TocItemsFrom(_, _)
TocItemsFrom(sects, i) ==
  IF i > Len(sects) THEN <<>>
  ELSE TocItemsOf(sects[i], i) \o TocItemsFrom(sects, i + 1)

TocItems(sects) == TocItemsFrom(sects, 1)

\* r"##\s+\d+\."
SectionNumberPattern == Lit(<<"#", "#">>) \o <<Plus(Space), Plus(Digits), One({"."})>>

\* a section without any "## n." whose first line starts with "##" gets its
\* position as number
EnsureNumbered(section, i) ==
  IF ~Search(SectionNumberPattern, section) /\ HasAt(section, 1, <<"#", "#">>)
  THEN <<"#", "#", " ">> \o NumText(i) \o <<".", " ">> \o Strip(RemoveHashes(FirstLine(section)))
       \o SubSeq(section, LineEnd(section, 1), Len(section))
  ELSE section

\* r"###\s+([^0-9\n].*)"
UnnumberedSubsectionPattern ==
  Lit(<<"#", "#", "#">>) \o <<Plus(Space), OneNot(Digits \cup Newline), StarNot(Newline)>>

\* re.sub(subsection_pattern, f"### {section_number}.\\1", section)
NumberSubsections(section, i) ==
  LET ms == FindIter(UnnumberedSubsectionPattern, section)
  IN Splice(section, ms,
            [k \in 1..Len(ms) |-> <<"#", "#", "#", " ">> \o NumText(i) \o <<".">>
                                    \o TakenSpan(section, ms[k], 5, 6)])

CleanedSections(sects) ==
  [i \in 1..Len(sects) |-> NumberSubsections(EnsureNumbered(sects[i], i), i)]

Footer ==
  << "\n", "\n", "---", "\n", "\n", "**Versión 1.0**", "\n", "\n",
     "**Documento preparado en conformidad con los requisitos del documento PKS-537 RQ-01**" >>

create_formatted_proposal(sects, metadata) ==
  TitleBlock(MetaGet(metadata, "fecha", <<"FECHA-ACTUAL">>),
             MetaGet(metadata, "titulo_proyecto", <<"Proyecto No Especificado">>),
             MetaGet(metadata, "cliente", <<"Cliente No Especificado">>))
    \o <<"#", "#", " ", "Tabla de Contenido", "\n", "\n">>
    \o Join(TocItems(sects), <<"\n">>) \o <<"\n", "\n", "---", "\n", "\n">>
    \o Join(CleanedSections(sects), <<"\n", "\n">>)
    \o Footer

-----------------------------------------------------------------------------
(* Inputs of the text functions: concatenations of a few pieces *)

RECURSIVE DocsOf(_, _)
DocsOf(pieces, n) ==
  IF n = 0 THEN {<<>>}
  ELSE LET shorter == DocsOf(pieces, n - 1)
       IN shorter \cup {d \o p : d \in shorter, p \in pieces}

\* no corpus and no persisted store: the runs of the other components do not
\* touch them
\* no worker is rebuilding the store
NoRebuild == [pc |-> "idle", documents |-> <<>>]

StoreIdle ==
  /\ proposals_dir = <<>>
  /\ persist_directory = [exists |-> FALSE, docs |-> <<>>]
  /\ rebuild = NoRebuild

\* the orchestrator's state while a text function is checked on its own
OrchIdle ==
  /\ variant = "none"
  /\ index = <<>>
  /\ tdr_info = [kind |-> "none", titulo_proyecto |-> Absent, cliente |-> Absent]
  /\ current_section_index = 0
  /\ sections = <<>>
  /\ generated_content = <<>>
  /\ proposal = <<>>
  /\ evaluation = "unset"
  /\ next_step = "end"
  /\ messages = <<>>
  /\ raised = FALSE
  /\ calls = <<>>
  /\ prompts = <<>>

-----------------------------------------------------------------------------
(* The normalizer applied once and then to its own result *)

MaxNormPieces == 4

NormPieces ==
  { <<"#", "#", " ", "1", ".", " ">>, <<"#", "#", "#", " ">>,
    <<"x">>, <<"1">>, <<" ">>, <<"\n">>, <<"*">>,
    <<"<think>">>, <<"</think>">>, <<"<thi">>, <<"nk>">>, <<"CJK">> }

NormInit ==
  /\ OrchIdle
  /\ StoreIdle
  /\ fn_in \in DocsOf(NormPieces, MaxNormPieces)
  /\ fn_out = <<>>
  /\ fn_pc = "normalize"

NormalizeOnce ==
  /\ fn_pc = "normalize"
  /\ fn_out = <<>>
  /\ fn_out' = <<improve_proposal_coherence(fn_in)>>
  /\ UNCHANGED <<fn_in, fn_pc, orchVars, storeVars>>

NormalizeAgain ==
  /\ fn_pc = "normalize"
  /\ Len(fn_out) = 1
  /\ fn_out' = Append(fn_out, improve_proposal_coherence(fn_out[1]))
  /\ UNCHANGED <<fn_in, fn_pc, orchVars, storeVars>>

NormNext == NormalizeOnce \/ NormalizeAgain

SpecNormalizer == NormInit /\ [][NormNext]_vars

\* C9: the final-pass normalizer is idempotent: a second pass over its own
\* result changes nothing.
NormalizerIdempotent == Len(fn_out) = 2 => fn_out[2] = fn_out[1]

-----------------------------------------------------------------------------
(* The validator applied to documents made of heading, subsection and text
   lines *)

MaxValLines == 3

HeadingLine(n) == <<"#", "#", " ", DigitToken(n), ".", " ", "T", "\n">>
SubsectionLine(c, n) == <<"#", "#", "#", " ", DigitToken(c), ".", DigitToken(n), " ", "T", "\n">>

ValLines ==
  {HeadingLine(n) : n \in 1..4}
    \cup {SubsectionLine(1, 1), SubsectionLine(1, 2), SubsectionLine(2, 1)}
    \cup {<<"x", "\n">>}

ValInit ==
  /\ OrchIdle
  /\ StoreIdle
  /\ fn_in \in DocsOf(ValLines, MaxValLines)
  /\ fn_out = <<>>
  /\ fn_pc = "validate"

Validate ==
  /\ fn_pc = "validate"
  /\ fn_out = <<>>
  /\ fn_out' = <<validate_proposal(fn_in)>>
  /\ UNCHANGED <<fn_in, fn_pc, orchVars, storeVars>>

ValNext == Validate

SpecValidator == ValInit /\ [][ValNext]_vars

\* the numbers of the top-level headings of a document: the lines that start
\* with exactly two "#", blanks, a number and a dot
TopLevelPattern == <<Bol>> \o Lit(<<"#", "#">>) \o <<Plus({" "}), Plus(Digits), One({"."})>>

TopLevelNumbers(text) ==
  LET ms == FindIter(TopLevelPattern, text)
  IN [k \in 1..Len(ms) |-> DigitsValue(text, ms[k].ends[4], ms[k].ends[5])]

\* an issue of the report names the adjacent labels a, b
ReferencesPair(issues, a, b) ==
  \E n \in 1..Len(issues) :
    /\ issues[n].kind = "not_sequential"
    /\ \E k \in 1..(Len(issues[n].numbers) - 1) :
         issues[n].numbers[k] = a /\ issues[n].numbers[k + 1] = b

\* C10: top-level headings that are not 1, 2, ..., n make numbering and the
\* whole report invalid, with an issue naming each offending adjacent pair;
\* top-level headings that are exactly 1..n add no top-level numbering issue.
TopLevelNumberingReported ==
  Len(fn_out) = 1 /\ fn_pc = "validate" =>
    LET top == TopLevelNumbers(fn_in)
        report == fn_out[1]
    IN IF top # Range1(Len(top))
       THEN /\ ~report.numbering.valid
            /\ ~report.is_valid
            /\ \A k \in 1..(Len(top) - 1) :
                 top[k + 1] # top[k] + 1 => ReferencesPair(report.numbering.issues, top[k], top[k + 1])
       ELSE \A n \in 1..Len(report.numbering.issues) :
              report.numbering.issues[n].kind # "not_sequential"

\* the subsection headings of a document: the lines that start with exactly
\* three "#", blanks and a label c.n
SubsectionLinePattern == <<Bol>> \o SubsectionPattern

\* every subsection line is labelled c.n, c the number of the top-level
\* heading it stands under and n its place among the subsections of that
\* heading
SubsectionsWellFormed(text) ==
  LET tops == FindIter(TopLevelPattern, text)
      subs == FindIter(SubsectionLinePattern, text)
  IN \A k \in 1..Len(subs) :
       \E c \in 1..Len(tops) :
         /\ tops[c].start < subs[k].start
         /\ \A later \in (c + 1)..Len(tops) : tops[later].start > subs[k].start
         /\ DigitsValue(text, subs[k].ends[5], subs[k].ends[6])
              = DigitsValue(text, tops[c].ends[4], tops[c].ends[5])
         /\ DigitsValue(text, subs[k].ends[7], subs[k].ends[8])
              = 1 + Cardinality({j \in 1..(k - 1) : subs[j].start > tops[c].start})

\* C27: a document whose top-level headings are numbered exactly 1..n and
\* whose subsections are well-formed labels c.1, c.2, ... under chapter c is
\* reported with numbering.valid: a subsection heading is not counted as a
\* top-level heading.
SubsectionsNotCountedAsChapters ==
  (Len(fn_out) = 1 /\ fn_pc = "validate"
     /\ TopLevelNumbers(fn_in) = Range1(Len(TopLevelNumbers(fn_in)))
     /\ SubsectionsWellFormed(fn_in)) =>
    fn_out[1].numbering.valid

\* the same of the documents without a subsection
ChaptersAloneAccepted ==
  (Len(fn_out) = 1 /\ fn_pc = "validate"
     /\ TopLevelNumbers(fn_in) = Range1(Len(TopLevelNumbers(fn_in)))
     /\ Len(FindIter(SubsectionLinePattern, fn_in)) = 0) =>
    fn_out[1].numbering.valid

-----------------------------------------------------------------------------
(* The assembler called on its own *)

MaxAsmSections == 3

\* sections as the orchestrator writes them and as it does not: with and
\* without a numbered heading, with subsections, with two headings, with a
\* heading that has a number and no title
AsmSections ==
  { <<"#", "#", " ", "1", ".", " ", "INTRO", "\n", "body">>,
    <<"#", "#", " ", "2", ".", " ", "OBJ", "\n", "#", "#", "#", " ", "SUB", "\n", "body">>,
    <<"#", "#", " ", "2", ".", " ", "OBJ", "\n", "#", "#", "#", " ", "1", ".", "1", " ", "SUB">>,
    <<"#", "#", " ", "1", ".", " ", "INTRO", "\n", "#", "#", " ", "2", ".", " ", "OBJ">>,
    <<"#", "#", " ", "1", ".", "\n", "#", "#", " ", "2", ".", " ", "OBJ">>,
    <<"#", "#", " ", "T", "\n", "body">>,
    <<"#", "#", "#", " ", "SUB", "\n", "body">>,
    <<"body">> }

RECURSIVE ListsOf(_, _)
ListsOf(S, n) ==
  IF n = 0 THEN {<<>>}
  ELSE LET shorter == ListsOf(S, n - 1)
       IN shorter \cup {Append(l, x) : l \in shorter, x \in S}

AsmMetadata ==
  [titulo_proyecto : {Present(<<"X">>), Absent}, cliente : {Present(<<"Y">>), Absent},
   fecha : {Absent}]

AsmInit ==
  /\ OrchIdle
  /\ StoreIdle
  /\ fn_in \in [sections : ListsOf(AsmSections, MaxAsmSections), metadata : AsmMetadata]
  /\ fn_out = <<>>
  /\ fn_pc = "assemble"

Assemble ==
  /\ fn_pc = "assemble"
  /\ fn_out = <<>>
  /\ fn_out' = <<create_formatted_proposal(fn_in.sections, fn_in.metadata)>>
  /\ UNCHANGED <<fn_in, fn_pc, orchVars, storeVars>>

AsmNext == Assemble

SpecAssembler == AsmInit /\ [][AsmNext]_vars

\* text.split("\n")
RECURSIVE SplitLinesFrom(_, _)
SplitLinesFrom(s, i) ==
  IF LineEnd(s, i) > Len(s) THEN <<SubSeq(s, i, Len(s))>>
  ELSE <<SubSeq(s, i, LineEnd(s, i) - 1)>> \o SplitLinesFrom(s, LineEnd(s, i) + 1)

SplitLines(s) == SplitLinesFrom(s, 1)

\* a line of the form "## <n>. <title>"
IsNumberedHeadingLine(line) ==
  /\ Len(line) >= 7
  /\ line[1] = "#" /\ line[2] = "#" /\ line[3] = " "
  /\ IsDigit(line[4]) /\ line[5] = "." /\ line[6] = " "

\* the contents lines "<n>. <title>" of the sections that start with a numbered
\* heading, in the order of the sections
RECURSIVE ExpectedTocFrom(_, _)
ExpectedTocFrom(sects, i) ==
  IF i > Len(sects) THEN <<>>
  ELSE (IF IsNumberedHeadingLine(FirstLine(sects[i]))
        THEN <<SubSeq(FirstLine(sects[i]), 4, Len(FirstLine(sects[i])))>>
        ELSE <<>>)
       \o ExpectedTocFrom(sects, i + 1)

\* a is b with some elements left out
RECURSIVE IsSubsequence(_, _)
IsSubsequence(a, b) ==
  IF Len(a) = 0 THEN TRUE
  ELSE IF Len(b) = 0 THEN FALSE
  ELSE IF a[1] = b[1] THEN IsSubsequence(Tail(a), Tail(b))
  ELSE IsSubsequence(a, Tail(b))

\* the position of the n-th rule line "---" of a document
RECURSIVE RulePosition(_, _, _)
RulePosition(doc, n, i) ==
  IF doc[i] = "---" THEN (IF n = 1 THEN i ELSE RulePosition(doc, n - 1, i + 1))
  ELSE RulePosition(doc, n, i + 1)

\* the three parts of an assembled document, between its rule lines
TitlePart(doc) == SubSeq(doc, 1, RulePosition(doc, 1, 1) - 1)
TocPart(doc) == SubSeq(doc, RulePosition(doc, 1, 1) + 1, RulePosition(doc, 2, 1) - 1)
BodyPart(doc) == SubSeq(doc, RulePosition(doc, 2, 1) + 3, RulePosition(doc, 3, 1) - 3)

\* a text without its heading marks, numbers and blanks: its words, line by line
Essence(s) == SelectSeq(s, LAMBDA t : t \notin {"#", " ", "."} \cup Digits)

\* C8: the assembled document has the metadata's title and client in its title
\* block, a contents line "<n>. <title>" for every section that starts with a
\* numbered heading, in the order of the sections, and the sections themselves
\* (their words, line by line) in the order of the input list.
AssemblerOutput ==
  Len(fn_out) = 1 /\ fn_pc = "assemble" =>
    LET doc == fn_out[1]
        sects == fn_in.sections
        meta == fn_in.metadata
    IN /\ meta.titulo_proyecto.present =>
            <<"**Proyecto: ">> \o meta.titulo_proyecto.value \o <<"**">>
              \in Range(SplitLines(TitlePart(doc)))
       /\ meta.cliente.present =>
            <<"**Cliente: ">> \o meta.cliente.value \o <<"**">>
              \in Range(SplitLines(TitlePart(doc)))
       /\ IsSubsequence(ExpectedTocFrom(sects, 1), SplitLines(TocPart(doc)))
       /\ Essence(BodyPart(doc)) = Join([i \in 1..Len(sects) |-> Essence(sects[i])], <<"\n", "\n">>)

\* two sections whose heading numbers differ from their positions, with title
\* and client given, have been assembled
AssemblerWitness ==
  /\ Len(fn_out) = 1 /\ fn_pc = "assemble"
  /\ fn_in.metadata.titulo_proyecto = Present(<<"X">>)
  /\ fn_in.metadata.cliente = Present(<<"Y">>)
  /\ Len(fn_in.sections) = 2
  /\ FirstLine(fn_in.sections[1]) = <<"#", "#", " ", "2", ".", " ", "OBJ">>
  /\ FirstLine(fn_in.sections[2]) = <<"#", "#", " ", "1", ".", " ", "INTRO">>
  /\ <<"2", ".", " ", "OBJ">> \in Range(SplitLines(TocPart(fn_out[1])))

-----------------------------------------------------------------------------
(* The text functions of the two section nodes *)

\* the marker of a section that could not be generated
PlaceholderMarker ==
  "[Esta sección no pudo generarse correctamente. Por favor, revise los logs para más detalles.]"

\* f"## {number}. {section_name.upper()}"
CanonicalHeading(number, section_name) ==
  <<"#", "#", " ">> \o NumText(number) \o <<".", " ", Upper(section_name)>>

\* the minimal section both nodes and the coherent generator write
MinimalSection(number, section_name) ==
  CanonicalHeading(number, section_name) \o <<"\n", "\n", PlaceholderMarker>>

\* generation_tools.clean_section_content: the heading pattern r'^#+\s+.*\n'
\* runs after the blank lines are collapsed
clean_section_content(content) ==
  LET collapsed == CollapseBlankLines(StripForeign(RemoveThink(content)))
  IN Strip(RemoveMatches(<<Bol, Plus({"#"}), Plus(Space), StarNot(Newline), One(Newline)>>,
                         collapsed))

\* section_generator.clean_section_content: the heading pattern r'^#+\s+.*?\n'
\* runs before the blank lines are collapsed
coherent_clean_section_content(content) ==
  LET latin == StripForeign(RemoveThink(content))
      headless == RemoveMatches(<<Bol, Plus({"#"}), Plus(Space), StarNotLazy(Newline),
                                  One(Newline)>>, latin)
  IN Strip(CollapseBlankLines(headless))

\* what the call of the generation backend gives: it raises, or it returns a text
Raises == [raises |-> TRUE, text |-> <<>>]
Returns(text) == [raises |-> FALSE, text |-> text]

\* str(e) of the exception the backend raised
ExceptionText == <<"EXC">>

\* generation_tools.generate_section: the cleaned response under "## <name>",
\* or, when the backend raised, "Error en sección <name>: Error al generar
\* sección <name>: <exception>"
generate_section(section_name, outcome) ==
  IF outcome.raises
  THEN <<"Error", " ", "en", " ", "sección", " ", section_name, ":", " ",
         "Error", " ", "al", " ", "generar", " ", "sección", " ", section_name, ":", " ">>
       \o ExceptionText
  ELSE <<"#", "#", " ", section_name, "\n", "\n">> \o clean_section_content(outcome.text)

\* section_node.improve_section_content
improve_section_content(content, section_name, section_number) ==
  LET latin == StripForeign(RemoveThink(content))
      formatted_title == CanonicalHeading(section_number, section_name)
      \* r'^##\s+.*?\n'
      content_without_header ==
        RemoveMatches(<<Bol, One({"#"}), One({"#"}), Plus(Space), StarNotLazy(Newline),
                        One(Newline)>>, latin)
      \* r'^###\s+(.*?)$' -> f'### {section_number}.\1'
      ms == FindIter(<<Bol, One({"#"}), One({"#"}), One({"#"}), Plus(Space),
                       StarNotLazy(Newline), Eol>>, content_without_header)
      content_with_normalized_subsections ==
        Splice(content_without_header, ms,
               [k \in 1..Len(ms) |-> <<"#", "#", "#", " ">> \o NumText(section_number) \o <<".">>
                                       \o Taken(content_without_header, ms[k], 6)])
      content_clean == CollapseBlankLines(content_with_normalized_subsections)
  IN formatted_title \o <<"\n", "\n">> \o Strip(content_clean)

\* re.sub(r'^##\s+\d+\.\s+' + re.escape(section_name.upper()), '', text,
\* flags=re.IGNORECASE).strip(): without re.MULTILINE the pattern matches at the
\* start of the text only
ContentWithoutHeader(improved_section, section_name) ==
  LET m == MatchAt(Lit(<<"#", "#">>) \o <<Plus(Space), Plus(Digits), One({"."}), Plus(Space),
                                        IgnoreCase(Upper(section_name))>>,
                   1, improved_section, 1)
  IN Strip(IF m.ok THEN SubSeq(improved_section, MatchEnd(m, 1), Len(improved_section))
           ELSE improved_section)

\* the title after "## {number}. " in section_templates[...]["format"], and of
\* the generic template for any other name
TemplateTitle(section_name) ==
  CASE section_name = "introduccion" -> <<"INTRODUCCIÓN">>
    [] section_name = "objetivos" -> <<"OBJETIVOS">>
    [] section_name = "alcance" -> <<"ALCANCE", " ", "DEL", " ", "SERVICIO">>
    [] section_name = "metodologia" -> <<"METODOLOGÍA">>
    [] section_name = "plan_trabajo" -> <<"PLAN", " ", "DE", " ", "TRABAJO", " ", "Y", " ", "CRONOGRAMA">>
    [] section_name = "entregables" -> <<"ENTREGABLES">>
    [] section_name = "recursos" -> <<"RECURSOS", " ", "HUMANOS", " ", "Y", " ", "TÉCNICOS">>
    [] section_name = "riesgos" -> <<"GESTIÓN", " ", "DE", " ", "RIESGOS">>
    [] section_name = "plan_calidad" -> <<"PLAN", " ", "DE", " ", "CALIDAD">>
    [] section_name = "normativas" -> <<"NORMATIVAS", " ", "Y", " ", "ESTÁNDARES", " ", "APLICABLES">>
    [] section_name = "experiencia" -> <<"EXPERIENCIA", " ", "EN", " ", "PROYECTOS", " ", "SIMILARES">>
    [] section_name = "anexos" -> <<"ANEXOS", " ", "TÉCNICOS">>
    [] OTHER -> <<Upper(section_name)>>

\* the prompt of line 206 formats the section's template with number and
\* content only: the template of "objetivos" also names general_objective and
\* specific_objectives, so building the prompt raises KeyError before the
\* backend is called
PromptRaises(section_name) == section_name = "objetivos"

\* section_generator.generate_coherent_section: every exception (of the prompt,
\* of the backend) ends in the minimal section; lines 217-246 are never
\* reached for "objetivos"
generate_coherent_section(section_name, section_number, outcome) ==
  IF PromptRaises(section_name) \/ outcome.raises
  THEN MinimalSection(section_number, section_name)
  ELSE <<"#", "#", " ">> \o NumText(section_number) \o <<".", " ">>
       \o TemplateTitle(section_name) \o <<"\n", "\n">>
       \o coherent_clean_section_content(outcome.text)

\* "Error" in section_content
ContainsError(section_content) == \E k \in 1..Len(section_content) : section_content[k] = "Error"

\* enhanced_section_node.clean_section: r'^##(?!\s+\d+\.)' -> '## 1.'
clean_section(section_content) ==
  LET content == CollapseBlankLines(StripForeign(RemoveThink(section_content)))
      ms == FindIter(<<Bol, One({"#"}), One({"#"}),
                       NotAhead(<<Plus(Space), Plus(Digits), One({"."})>>)>>, content)
  IN Strip(Splice(content, ms, [k \in 1..Len(ms) |-> <<"#", "#", " ", "1", ".">>]))

-----------------------------------------------------------------------------
(* The run state and the three nodes.  A node is an operator from the state  *)
(* dict (and what the outside answered) to the state dict it leaves.         *)

\* state["tdr_info"]: None or "" (kind "none"), a free text, the JSON text of
\* an object with or without the two keys, the JSON text of a number
NoTdrInfo == [kind |-> "none", titulo_proyecto |-> Absent, cliente |-> Absent]

TdrInfos ==
  { NoTdrInfo,
    [kind |-> "text", titulo_proyecto |-> Absent, cliente |-> Absent],
    [kind |-> "json_object", titulo_proyecto |-> Present(<<"X">>), cliente |-> Present(<<"Y">>)],
    [kind |-> "json_number", titulo_proyecto |-> Absent, cliente |-> Absent] }

\* the state dict of the run
State ==
  [ index |-> index, tdr_info |-> tdr_info, current_section_index |-> current_section_index,
    sections |-> sections, generated_content |-> generated_content, proposal |-> proposal,
    evaluation |-> evaluation, next_step |-> next_step, messages |-> messages,
    raised |-> raised, calls |-> calls, prompts |-> prompts ]

\* a test of the section list alone
InputsMissingIndexOnly(st) == Len(st.index) = 0

\* if not index or not tdr_info
InputsMissing(st) == Len(st.index) = 0 \/ st.tdr_info.kind = "none"

\* a test that fires one section early
AllSectionsDoneEarly(st) == st.current_section_index + 1 >= Len(st.index)

\* if current_index >= len(section_names)
AllSectionsDone(st) == st.current_section_index >= Len(st.index)

\* an index that is not advanced
AdvanceIndexNever(current_index) == current_index

\* state["current_section_index"] = current_index + 1
AdvanceIndex(current_index) == current_index + 1

\* a store that keeps only the first token of the content
StoreContentHead(generated, section_name, content) ==
  Append(generated, [name |-> section_name, content |-> SubSeq(content, 1, 1)])

\* state["generated_content"][section_name] = content: a dict keeps the place
\* of a key it already has
StoreContent(generated, section_name, content) ==
  IF \E k \in 1..Len(generated) : generated[k].name = section_name
  THEN [k \in 1..Len(generated) |->
          IF generated[k].name = section_name
          THEN [name |-> section_name, content |-> content] ELSE generated[k]]
  ELSE Append(generated, [name |-> section_name, content |-> content])

MissingGenerateMessage == <<"Error", ":", " ", "Faltan datos necesarios para generar secciones">>
AllGeneratedMessage == <<"Todas las secciones han sido generadas exitosamente">>

\* f"Sección {current_index+1}/{len(section_names)} ({section_name}) generada"
GeneratedMessage(number, total, section_name) ==
  <<"Sección", " ">> \o NumText(number) \o <<"/">> \o NumText(total)
    \o <<" ", "(", section_name, ")", " ", "generada">>

\* what both nodes do after the section text is known: the progress message,
\* the index, the next step
FinishSection(st, number, section_name) ==
  [st EXCEPT !.messages = Append(@, GeneratedMessage(number, Len(st.index), section_name)),
             !.current_section_index = AdvanceIndex(st.current_section_index),
             !.next_step = "generate_sections"]

\* len() of the lexemes that are longer than one character; "x3000" is a run
\* of 3000 letters
TokenLen(t) ==
  CASE t \in {"txt"} -> 3
    [] t \in {"Error", "otros", "OTROS"} -> 5
    [] t \in {"cliente", "alcance", "ALCANCE"} -> 7
    [] t \in {"objetivos", "OBJETIVOS"} -> 9
    [] t \in {"introduccion", "INTRODUCCION", "INTRODUCCIÓN"} -> 12
    [] t = "Sección previa: " -> 16
    [] t = "x3000" -> 3000
    [] OTHER -> 1

\* len(text)
RECURSIVE TextLen(_)
TextLen(text) == IF Len(text) = 0 THEN 0 ELSE TokenLen(text[1]) + TextLen(Tail(text))

\* if len(previously_generated) < 3000
ContextCap == 3000

\* section_node lines 67-71: the stored contents, in the order of the dict,
\* as long as the context is shorter than the cap before one is added
RECURSIVE PreviouslyGeneratedFrom(_, _, _)
PreviouslyGeneratedFrom(generated, k, acc) ==
  IF k > Len(generated) THEN acc
  ELSE PreviouslyGeneratedFrom(
         generated, k + 1,
         IF TextLen(acc.text) < ContextCap
         THEN [parts |-> Append(acc.parts, generated[k].name),
               text |-> acc.text \o <<"#", "#", " ", generated[k].name, "\n", "\n">>
                        \o generated[k].content \o <<"\n", "\n">>]
         ELSE acc)

previously_generated(st) ==
  PreviouslyGeneratedFrom(st.generated_content, 1, [parts |-> <<>>, text |-> <<>>])

\* enhanced_section_node lines 70-73: the names of section_names[:current_index]
\* that have a stored content
PreviousSections(st) ==
  SelectSeq(SubSeq(st.index, 1, st.current_section_index),
            LAMBDA prev_name : \E k \in 1..Len(st.generated_content) :
                                 st.generated_content[k].name = prev_name)

\* state["generated_content"][prev_name]
ContentOf(generated, section_name) ==
  (CHOOSE entry \in Range(generated) : entry.name = section_name).content

\* previous_sections[-2:]
LastTwo(list) == SubSeq(list, IF Len(list) > 2 THEN Len(list) - 1 ELSE 1, Len(list))

\* section_generator lines 169-174
PreviousContextOf(generated, previous_sections) ==
  [parts |-> LastTwo(previous_sections),
   text |-> Join([k \in 1..Len(LastTwo(previous_sections)) |->
                    <<"Sección previa: ">> \o ContentOf(generated, LastTwo(previous_sections)[k])],
                 <<"\n", "\n">>)]

previous_context(st) == PreviousContextOf(st.generated_content, PreviousSections(st))

\* section_node.generate_sections_node
generate_sections_node(st, outcome) ==
  IF InputsMissing(st)
  THEN [st EXCEPT !.messages = Append(@, MissingGenerateMessage), !.next_step = "end"]
  ELSE IF AllSectionsDone(st)
  THEN [st EXCEPT !.messages = Append(@, AllGeneratedMessage), !.next_step = "combine_proposal"]
  ELSE LET number == st.current_section_index + 1
           section_name == st.index[number]
           section_content == generate_section(section_name, outcome)
           called == [st EXCEPT !.calls = Append(@, IF outcome.raises THEN "raised" ELSE "returned"),
                                !.prompts = Append(@, previously_generated(st))]
           improved_section == improve_section_content(section_content, section_name, number)
       IN IF StartsWith(section_content, <<"Error", ":">>)
          THEN FinishSection(
                 [called EXCEPT !.messages = Append(@, section_content),
                                !.sections = Append(@, MinimalSection(number, section_name))],
                 number, section_name)
          ELSE FinishSection(
                 [called EXCEPT !.sections = Append(@, improved_section),
                                !.generated_content =
                                   StoreContent(@, section_name,
                                                ContentWithoutHeader(improved_section, section_name))],
                 number, section_name)

\* enhanced_section_node.extract_project_metadata catches json.JSONDecodeError
\* only: on the JSON text of a number, '"titulo_proyecto" in info_dict' raises
\* TypeError.  The metadata itself only goes into the prompt.
EnhancedMetadataRaises(info) == info.kind = "json_number"

\* f"Error en la generación de la sección {section_name}"
EnhancedErrorMessage(section_name) ==
  <<"Error", " ", "en la generación de la sección", " ", section_name>>

\* enhanced_section_node.enhanced_generate_sections_node
enhanced_generate_sections_node(st, outcome) ==
  IF InputsMissing(st)
  THEN [st EXCEPT !.messages = Append(@, MissingGenerateMessage), !.next_step = "end"]
  ELSE IF EnhancedMetadataRaises(st.tdr_info)
  THEN [st EXCEPT !.raised = TRUE]
  ELSE IF AllSectionsDone(st)
  THEN [st EXCEPT !.messages = Append(@, AllGeneratedMessage), !.next_step = "combine_proposal"]
  ELSE LET number == st.current_section_index + 1
           section_name == st.index[number]
           section_content == generate_coherent_section(section_name, number, outcome)
           called == IF PromptRaises(section_name)
                     THEN [st EXCEPT !.prompts = Append(@, previous_context(st))]
                     ELSE [st EXCEPT !.calls = Append(@, IF outcome.raises THEN "raised"
                                                         ELSE "returned"),
                                     !.prompts = Append(@, previous_context(st))]
           clean_content == clean_section(section_content)
       IN IF ContainsError(section_content)
          THEN FinishSection(
                 [called EXCEPT !.messages = Append(@, EnhancedErrorMessage(section_name)),
                                !.sections = Append(@, MinimalSection(number, section_name))],
                 number, section_name)
          ELSE FinishSection(
                 [called EXCEPT !.sections = Append(@, clean_content),
                                !.generated_content = StoreContent(@, section_name, clean_content)],
                 number, section_name)

\* a test that never finds the list empty
NoSectionsNever(sects) == FALSE

\* if not sections
NoSections(sects) == Len(sects) = 0

\* the first match of re.search(pat, s)
FirstMatch(pat, s) == FindIter(pat, s)[1]

ColonOrSpace == {":", " ", "\n"}

\* r"(?:título|titulo|nombre)\s+del\s+proyecto[:\s]+(.+?)(?=\n|$)", re.IGNORECASE
ProjectTitlePattern ==
  << One({"título", "titulo", "nombre", "Título", "Titulo", "Nombre", "TÍTULO", "TITULO", "NOMBRE"}),
     Plus(Space), One({"del", "Del", "DEL"}), Plus(Space),
     One({"proyecto", "Proyecto", "PROYECTO"}), Plus(ColonOrSpace), PlusNotLazy(Newline), Eol >>

\* r"(?:cliente|empresa)[:\s]+(.+?)(?=\n|$)", re.IGNORECASE
ClientPattern ==
  << One({"cliente", "empresa", "Cliente", "Empresa", "CLIENTE", "EMPRESA"}),
     Plus(ColonOrSpace), PlusNotLazy(Newline), Eol >>

DefaultMetadata ==
  [ titulo_proyecto |-> Present(<<"Proyecto No Especificado">>),
    cliente |-> Present(<<"Cliente No Especificado">>),
    fecha |-> Present(<<"FECHA-ACTUAL">>) ]

\* a key of the JSON object unless it is missing or "No especificado"
MetadataFromKey(info, key) ==
  IF info[key].present /\ info[key].value # <<"No especificado">>
  THEN info[key] ELSE DefaultMetadata[key]

\* group(group).strip() of the first match in the section, if there is one
MetadataFromText(intro_section, pat, group, key) ==
  IF Search(pat, intro_section)
  THEN Present(Strip(Taken(intro_section, FirstMatch(pat, intro_section), group)))
  ELSE DefaultMetadata[key]

\* combine_node.extract_project_metadata: from the keys of a JSON object; from
\* the first section when the requirement info is no JSON text; the defaults
\* when it is JSON and no object (the TypeError is caught).  The requirement
\* infos of the model have none of the date keys.
extract_project_metadata(st) ==
  IF st.tdr_info.kind = "json_object"
  THEN [DefaultMetadata EXCEPT
          !.titulo_proyecto = MetadataFromKey(st.tdr_info, "titulo_proyecto"),
          !.cliente = MetadataFromKey(st.tdr_info, "cliente")]
  ELSE IF st.tdr_info.kind \in {"text", "none"} /\ Len(st.sections) > 0
  THEN [DefaultMetadata EXCEPT
          !.titulo_proyecto = MetadataFromText(st.sections[1], ProjectTitlePattern, 7,
                                               "titulo_proyecto"),
          !.cliente = MetadataFromText(st.sections[1], ClientPattern, 3, "cliente")]
  ELSE DefaultMetadata

MissingCombineMessage == <<"Error", ":", " ", "No hay secciones para combinar en una propuesta">>

\* f"Propuesta técnica generada y combinada exitosamente con {len(sections)}
\* secciones. Título del proyecto: {titulo_proyecto}"
CombinedMessage(count, titulo_proyecto) ==
  <<"Propuesta técnica generada y combinada exitosamente con", " ">> \o NumText(count)
    \o <<" ", "secciones", ".", " ", "Título del proyecto", ":", " ">> \o titulo_proyecto

\* combine_node.combine_proposal_node.  Saving the file (lines 60-77) changes
\* state["proposal_filename"] only and swallows every exception.
combine_proposal_node(st) ==
  IF NoSections(st.sections)
  THEN [st EXCEPT !.messages = Append(@, MissingCombineMessage), !.next_step = "end"]
  ELSE LET project_metadata == extract_project_metadata(st)
           improved_proposal ==
             improve_proposal_coherence(create_formatted_proposal(st.sections, project_metadata))
       IN [st EXCEPT !.proposal = improved_proposal,
                     !.messages = Append(@, CombinedMessage(Len(st.sections),
                                                            project_metadata.titulo_proyecto.value)),
                     !.next_step = "evaluate_proposal"]

\* what tools.evaluation_tools.evaluate_proposal can return: a text that
\* starts with "Error:", a text that is no JSON, the JSON text of an object
\* with the expected keys, of an array, of an object whose
\* "cumplimiento_requisitos" is a list
EvaluationResults ==
  {"error_text", "plain_text", "json_object", "json_array", "json_object_cumplimiento_list"}

\* lines 71-109: json.loads and the summary; only json.JSONDecodeError and
\* TypeError are caught, so eval_dict.get on a list and cumplimiento.values()
\* on a list (AttributeError) leave the node
SummaryOf(evaluation_result) ==
  CASE evaluation_result \in {"error_text", "plain_text"} -> "plain"
    [] evaluation_result = "json_object" -> "detailed"
    [] OTHER -> "raises"

MissingEvaluateMessage == <<"Error", ":", " ", "Faltan datos necesarios para evaluar la propuesta">>
PlainEvaluationMessage == <<"Evaluación completada. La propuesta ha sido guardada en el archivo">>
DetailedEvaluationMessage == <<"Propuesta evaluada", ":", " ", "Estado, puntuación, resumen">>
EvaluationErrorMessage == <<"Error", ":", " ", "evaluación">>

\* evaluate_node.evaluate_proposal_node
evaluate_proposal_node(st, evaluation_result) ==
  IF Len(st.proposal) = 0 \/ st.tdr_info.kind = "none"
  THEN [st EXCEPT !.messages = Append(@, MissingEvaluateMessage), !.next_step = "end"]
  ELSE LET saved == IF evaluation_result = "error_text"
                    THEN [st EXCEPT !.messages = Append(@, EvaluationErrorMessage)]
                    ELSE [st EXCEPT !.evaluation = evaluation_result]
           summary == SummaryOf(evaluation_result)
       IN IF summary = "raises" THEN [saved EXCEPT !.raised = TRUE]
          ELSE [saved EXCEPT !.messages = Append(@, IF summary = "detailed"
                                                    THEN DetailedEvaluationMessage
                                                    ELSE PlainEvaluationMessage),
                             !.next_step = "end"]

-----------------------------------------------------------------------------
(* The run: the graph calls the node that next_step names until it is "end" *)

MaxSections == 2

NamePool == {"introduccion", "objetivos", "otros"}

\* the keys of state["index"] in insertion order: no name twice
Indexes ==
  {names \in ListsOf(NamePool, MaxSections) :
     \A i, j \in 1..Len(names) : names[i] = names[j] => i = j}

\* what the language model may answer
Replies ==
  { <<"txt">>,
    <<"Error", ":", " ", "txt">>,
    <<"#", "#", " ", "T", "\n", "txt">>,
    <<"#", "#", "#", " ", "T", "\n", "txt", "\n">>,
    <<"<think>", "x", "</think>", "txt", "CJK">>,
    <<"cliente", ":", " ", "Y", "\n", "txt">>,
    <<"x3000">> }

Backend == {Raises} \cup {Returns(reply) : reply \in Replies}

Variants == {"basic", "enhanced"}

Init ==
  /\ variant \in Variants
  /\ index \in Indexes
  /\ tdr_info \in TdrInfos
  /\ current_section_index = 0
  /\ sections = <<>>
  /\ generated_content = <<>>
  /\ proposal = <<>>
  /\ evaluation = "unset"
  /\ next_step = "generate_sections"
  /\ messages = <<>>
  /\ raised = FALSE
  /\ calls = <<>>
  /\ prompts = <<>>
  /\ fn_in = <<>>
  /\ fn_out = <<>>
  /\ fn_pc = "run"
  /\ StoreIdle

\* the conditional edges of the graph: the node that next_step names runs, and
\* nothing runs after "end" or after a node has raised
Routed(step) == next_step = step /\ ~raised

\* the state dict the node returns becomes the state of the run
Becomes(st) ==
  /\ index' = st.index
  /\ tdr_info' = st.tdr_info
  /\ current_section_index' = st.current_section_index
  /\ sections' = st.sections
  /\ generated_content' = st.generated_content
  /\ proposal' = st.proposal
  /\ evaluation' = st.evaluation
  /\ next_step' = st.next_step
  /\ messages' = st.messages
  /\ raised' = st.raised
  /\ calls' = st.calls
  /\ prompts' = st.prompts

GenerateSections ==
  /\ Routed("generate_sections")
  /\ \E outcome \in Backend :
       Becomes(IF variant = "basic" THEN generate_sections_node(State, outcome)
               ELSE enhanced_generate_sections_node(State, outcome))
  /\ UNCHANGED <<variant, fnVars, storeVars>>

CombineProposal ==
  /\ Routed("combine_proposal")
  /\ Becomes(combine_proposal_node(State))
  /\ UNCHANGED <<variant, fnVars, storeVars>>

EvaluateProposal ==
  /\ Routed("evaluate_proposal")
  /\ \E evaluation_result \in EvaluationResults :
       Becomes(evaluate_proposal_node(State, evaluation_result))
  /\ UNCHANGED <<variant, fnVars, storeVars>>

Next == GenerateSections \/ CombineProposal \/ EvaluateProposal

Spec == Init /\ [][Next]_vars

-----------------------------------------------------------------------------
(* The section nodes over an outline of four sections: what each generation  *)
(* is given of the sections before it                                        *)

ContextIndex == <<"introduccion", "otros", "alcance", "objetivos">>

ContextInit ==
  /\ variant \in Variants
  /\ index = ContextIndex
  /\ tdr_info \in {info \in TdrInfos : info.kind \in {"text", "json_object"}}
  /\ current_section_index = 0
  /\ sections = <<>>
  /\ generated_content = <<>>
  /\ proposal = <<>>
  /\ evaluation = "unset"
  /\ next_step = "generate_sections"
  /\ messages = <<>>
  /\ raised = FALSE
  /\ calls = <<>>
  /\ prompts = <<>>
  /\ fn_in = <<>>
  /\ fn_out = <<>>
  /\ fn_pc = "run"
  /\ StoreIdle

ContextNext == GenerateSections \/ CombineProposal \/ EvaluateProposal

SpecContext == ContextInit /\ [][ContextNext]_vars

\* the names of the sections generated before section number, nearest last,
\* that have a stored content
StoredBefore(number) ==
  SelectSeq(SubSeq(index, 1, number - 1),
            LAMBDA name : \E k \in 1..Len(generated_content) : generated_content[k].name = name)

\* a is the end of b
IsSuffix(a, b) == Len(a) <= Len(b) /\ a = SubSeq(b, Len(b) - Len(a) + 1, Len(b))

\* the context text that the variant makes of the stored contents of names
ContextTextOf(names) ==
  IF variant = "basic"
  THEN Join([k \in 1..Len(names) |->
               <<"#", "#", " ", names[k], "\n", "\n">> \o ContentOf(generated_content, names[k])
               \o <<"\n", "\n">>], <<>>)
  ELSE Join([k \in 1..Len(names) |->
               <<"Sección previa: ">> \o ContentOf(generated_content, names[k])], <<"\n", "\n">>)

\* the step generates the section after the sections already in the list
GeneratesNextSection ==
  /\ Len(sections) = current_section_index
  /\ sections' = Append(sections, sections'[Len(sections')])
  /\ current_section_index' = current_section_index + 1
  /\ messages'[Len(messages')]
       = GeneratedMessage(Len(sections'), Len(index), index[Len(sections')])
  /\ prompts' = Append(prompts, prompts'[Len(prompts')])
  /\ LET handed == prompts'[Len(prompts')]
     IN /\ \E chosen \in SUBSET (1..Len(sections)) :
             handed.parts = SelectSeq(SubSeq(index, 1, Len(sections)),
                                      LAMBDA name : \E j \in chosen : index[j] = name)
        /\ handed.text = ContextTextOf(handed.parts)
        /\ \A k \in 1..Len(handed.parts) :
             \E j \in 1..Len(sections) :
               /\ index[j] = handed.parts[k]
               /\ IsSuffix(ContentOf(generated_content, handed.parts[k]), sections[j])

ContextIsBounded ==
  \A number \in 1..Len(prompts) :
    /\ Len(prompts[number].parts) <= 2
    /\ prompts[number].parts = LastTwo(StoredBefore(number))
    /\ TextLen(prompts[number].text) <= ContextCap

\* the text after the first line of a section, stripped
WithoutHeadingLine(section) ==
  IF \E k \in 1..Len(section) : section[k] = "\n"
  THEN Strip(SubSeq(section, (CHOOSE k \in 1..Len(section) :
                               section[k] = "\n" /\ \A j \in 1..(k - 1) : section[j] # "\n") + 1,
                    Len(section)))
  ELSE <<>>

\* the stored content under a name is the written section of that name
\* without its heading line
StoredWithoutHeading(entry) ==
  \E number \in 1..current_section_index :
    /\ number <= Len(index) /\ number <= Len(sections)
    /\ index[number] = entry.name
    /\ ~StartsWith(entry.content, CanonicalHeading(number, entry.name))
    /\ entry.content = WithoutHeadingLine(sections[number])

\* C25: every key of generated_content names a section already processed,
\* and every stored value is that section's text without its heading line: it
\* never starts with the canonical "## <n>. <NAME>" heading.
StoredContentHasNoHeading ==
  \A k \in 1..Len(generated_content) : StoredWithoutHeading(generated_content[k])

\* the same, of the basic node alone
BasicStoredContentHasNoHeading == variant = "basic" => StoredContentHasNoHeading

\* the keys alone
StoredKeysAreProcessed ==
  \A k \in 1..Len(generated_content) :
    \E number \in 1..current_section_index :
      number <= Len(index) /\ index[number] = generated_content[k].name

-----------------------------------------------------------------------------
(* The combine node called on a state of its own: any list of sections the   *)
(* section nodes can have written, none included                             *)

NodeSections ==
  { MinimalSection(1, "introduccion"),
    improve_section_content(generate_section("otros", Returns(<<"cliente", ":", " ", "Y", "\n", "txt">>)),
                            "otros", 1),
    improve_section_content(generate_section("objetivos", Raises), "objetivos", 2),
    clean_section(generate_coherent_section("introduccion", 1,
                                            Returns(<<"#", "#", "#", " ", "T">>))) }

CombineInit ==
  /\ variant \in Variants
  /\ index \in Indexes
  /\ tdr_info \in TdrInfos
  /\ current_section_index = Len(index)
  /\ sections \in ListsOf(NodeSections, MaxSections)
  /\ generated_content = <<>>
  /\ proposal = <<>>
  /\ evaluation = "unset"
  /\ next_step = "combine_proposal"
  /\ messages = <<>>
  /\ raised = FALSE
  /\ calls = <<>>
  /\ prompts = <<>>
  /\ fn_in = <<>>
  /\ fn_out = <<>>
  /\ fn_pc = "run"
  /\ StoreIdle

CombineNext == CombineProposal \/ EvaluateProposal

SpecCombine == CombineInit /\ [][CombineNext]_vars

-----------------------------------------------------------------------------
(* Properties of the run *)

Steps == {"generate_sections", "combine_proposal", "evaluate_proposal", "end"}

\* the last message recorded is an error message
ErrorRecorded(before, after) ==
  /\ Len(after) = Len(before) + 1
  /\ SubSeq(after, 1, Len(before)) = before
  /\ StartsWith(after[Len(after)], <<"Error", ":">>)

\* C1: the number of sections written always equals current_section_index:
\* after a generation that succeeded, after one that failed, after the
\* all-sections-done guard and after the missing-input exit.
SectionsMatchIndex == Len(sections) = current_section_index

\* both sections of a two-name list are written, one by a failed and one by a
\* successful generation, and the guard has sent the run to the combine node
SectionsMatchIndexWitness ==
  /\ next_step = "combine_proposal"
  /\ current_section_index = 2
  /\ Len(sections) = 2
  /\ calls = <<"raised", "returned">>

\* C2: once the section node has left the generate step with its inputs
\* present, there is one section per name and section i starts with the
\* heading "## <i>. <name i in upper case>", whatever the backend answered.
HeadingsInListOrder ==
  (next_step # "generate_sections" /\ Len(index) > 0 /\ tdr_info.kind # "none") =>
    /\ Len(sections) = Len(index)
    /\ \A i \in 1..Len(sections) :
         StartsWith(sections[i], <<"#", "#", " ">> \o NumText(i) \o <<".", " ", Upper(index[i])>>)

\* C3: as long as every call of the backend has raised, every section written
\* is the placeholder: the heading "## <i>. <NAME>", a blank line, the
\* could-not-be-generated marker.
PlaceholdersOnFailure ==
  (\A k \in 1..Len(calls) : calls[k] = "raised") =>
    \A i \in 1..Len(sections) :
      sections[i] = <<"#", "#", " ">> \o NumText(i) \o <<".", " ", Upper(index[i]), "\n", "\n",
                                                       PlaceholderMarker>>

\* C4: a run that has not reached next_step = "end" can always take a step:
\* next_step names a node and no node has raised.
NoDeadEnd ==
  next_step # "end" =>
    /\ next_step \in {"generate_sections", "combine_proposal", "evaluate_proposal"}
    /\ ~raised

\* C24: whatever the evaluation backend returned, the evaluate step returns
\* without raising, appends a summary message (the plain one unless the
\* result is the JSON text of a well-formed object) and sets next_step = "end".
EvaluateDegrades ==
  [][ Routed("evaluate_proposal") =>
        /\ ~raised'
        /\ next_step' = "end"
        /\ Len(messages') > Len(messages)
        /\ evaluation' # "json_object" =>
             messages'[Len(messages')] \in {PlainEvaluationMessage, MissingEvaluateMessage}
    ]_vars

\* the section a node makes of a text the backend returned
NormalizedSection(reply, section_name, number) ==
  IF variant = "basic"
  THEN improve_section_content(generate_section(section_name, Returns(reply)), section_name, number)
  ELSE clean_section(generate_coherent_section(section_name, number, Returns(reply)))

\* the backend was called in this step and returned a text
BackendReturned ==
  /\ Len(calls') = Len(calls) + 1
  /\ calls'[Len(calls')] = "returned"

\* C26: a step in which the backend returned a text appends the normalized
\* generated text and not the placeholder section, whatever words the text
\* holds.
PlaceholderOnlyOnFailure ==
  [][ BackendReturned =>
        /\ Len(sections') = Len(sections) + 1
        /\ sections'[Len(sections')] # MinimalSection(Len(sections'), index[Len(sections')])
        /\ \E reply \in Replies :
             sections'[Len(sections')] = NormalizedSection(reply, index[Len(sections')], Len(sections'))
    ]_vars

\* the same, of the basic node alone
BasicPlaceholderOnlyOnFailure ==
  [][ (variant = "basic" /\ BackendReturned) =>
        /\ Len(sections') = Len(sections) + 1
        /\ sections'[Len(sections')] # MinimalSection(Len(sections'), index[Len(sections')])
    ]_vars

\* C5: next_step is one of the four steps and moves only along
\* generate -> generate -> combine -> evaluate -> end or to end; a generate
\* step that returns with inputs present sets combine_proposal exactly when
\* current_section_index >= the number of names, and otherwise adds one to the
\* index and stays in generate_sections.
NextStepMoves ==
  [][ /\ next_step \in Steps /\ next_step' \in Steps
      /\ next_step' # next_step =>
           \/ next_step' = "end"
           \/ <<next_step, next_step'>> \in {<<"generate_sections", "combine_proposal">>,
                                            <<"combine_proposal", "evaluate_proposal">>}
      /\ (next_step = "generate_sections" /\ ~raised' /\ Len(index) > 0 /\ tdr_info.kind # "none") =>
           /\ next_step' = "combine_proposal" <=> current_section_index >= Len(index)
           /\ next_step' # "combine_proposal" =>
                /\ next_step' = "generate_sections"
                /\ current_section_index' = current_section_index + 1
    ]_vars

\* the guard has fired after the second of two sections
NextStepMovesWitness ==
  /\ next_step = "evaluate_proposal"
  /\ Len(index) = 2
  /\ current_section_index = 2
  /\ Len(proposal) > 0

\* C6: a generate step that finds the section list or the requirement info
\* missing sets next_step to "end", records an error message, calls no
\* backend and leaves sections, index, generated content and proposal alone.
MissingInputsEndRun ==
  [][ (next_step = "generate_sections" /\ ~raised /\ (Len(index) = 0 \/ tdr_info.kind = "none")) =>
        /\ next_step' = "end"
        /\ ErrorRecorded(messages, messages')
        /\ UNCHANGED <<sections, current_section_index, generated_content, proposal, calls>>
    ]_vars

\* the run of a two-name list without requirement info has ended in its
\* first step
MissingInputsWitness ==
  /\ next_step = "end"
  /\ Len(index) = 2
  /\ tdr_info.kind = "none"
  /\ messages = <<MissingGenerateMessage>>
  /\ calls = <<>>

\* C7: a combine step without sections sets next_step to "end", records an
\* error message and sets no proposal; with sections it sets a proposal and
\* next_step "evaluate_proposal" and leaves sections and index alone; a
\* proposal once set is never set again.
CombineStep ==
  [][ /\ (next_step = "combine_proposal" /\ ~raised) =>
           IF Len(sections) = 0
           THEN /\ next_step' = "end"
                /\ ErrorRecorded(messages, messages')
                /\ proposal' = <<>>
           ELSE /\ next_step' = "evaluate_proposal"
                /\ Len(proposal') > 0
                /\ UNCHANGED <<sections, current_section_index>>
      /\ Len(proposal) > 0 => proposal' = proposal
    ]_vars

\* a combine step has found no sections
CombineStepWitness ==
  /\ next_step = "end"
  /\ Len(sections) = 0
  /\ messages = <<MissingCombineMessage>>
  /\ proposal = <<>>

-----------------------------------------------------------------------------
(* The repairer: validate_and_fix_proposal validates, and repairs what is    *)
(* not valid                                                                 *)

\* str.replace(old, new) from position i on: every occurrence, leftmost
\* first, not overlapping
RECURSIVE ReplaceAllFrom(_, _, _, _)
ReplaceAllFrom(s, old, new, i) ==
  LET found == {j \in i..Len(s) : HasAt(s, j, old)}
      first == Lowest(found)
  IN IF found = {} THEN SubSeq(s, i, Len(s))
     ELSE SubSeq(s, i, first - 1) \o new \o ReplaceAllFrom(s, old, new, first + Len(old))

\* r'##\s+\d+\.\s+'
FixSectionPattern == Lit(<<"#", "#">>) \o <<Plus(Space), Plus(Digits), One({"."}), Plus(Space)>>

\* for i, match in enumerate(section_matches):
\*     corrected_text = corrected_text.replace(match, f"## {i+1}. ")
RECURSIVE RenumberEach(_, _, _)
RenumberEach(text, section_matches, i) ==
  IF i > Len(section_matches) THEN text
  ELSE RenumberEach(ReplaceAllFrom(text, section_matches[i],
                                   <<"#", "#", " ">> \o NumText(i) \o <<".", " ">>, 1),
                    section_matches, i + 1)

\* ProposalValidator.fix_issues
fix_issues(proposal_text, validation_results) ==
  LET corrected_text == RemoveThink(StripForeign(proposal_text))
      ms == FindIter(FixSectionPattern, corrected_text)
      section_matches ==
        [k \in 1..Len(ms) |-> SubSeq(corrected_text, ms[k].start, MatchEnd(ms[k], ms[k].start) - 1)]
  IN IF ~validation_results.numbering.valid
     THEN RenumberEach(corrected_text, section_matches, 1)
     ELSE corrected_text

\* validate_and_fix_proposal: the report and the corrected text
FixedWith(proposal_text, validation_results) ==
  [ validation |-> validation_results,
    corrected |-> ~validation_results.is_valid,
    corrected_text |-> IF ~validation_results.is_valid
                       THEN fix_issues(proposal_text, validation_results)
                       ELSE proposal_text ]

validate_and_fix_proposal(proposal_text) ==
  FixedWith(proposal_text, validate_proposal(proposal_text))

MaxRepairLines == 3

\* headings with the numbers 1..4, a subsection, a text line, a reasoning span
RepairLines ==
  {HeadingLine(n) : n \in 1..4}
    \cup {SubsectionLine(1, 1), <<"x", "\n">>, <<"<think>", "x", "</think>", "CJK">>}

RepairInit ==
  /\ OrchIdle
  /\ StoreIdle
  /\ fn_in \in DocsOf(RepairLines, MaxRepairLines)
  /\ fn_out = <<>>
  /\ fn_pc = "repair"

ValidateAndFix ==
  /\ fn_pc = "repair"
  /\ fn_out = <<>>
  /\ fn_out' = <<validate_and_fix_proposal(fn_in)>>
  /\ UNCHANGED <<fn_in, fn_pc, orchVars, storeVars>>

RepairNext == ValidateAndFix

SpecRepair == RepairInit /\ [][RepairNext]_vars

\* the text without the digits of its top-level heading numbers
WithoutTopLevelNumbers(text) ==
  LET ms == FindIter(TopLevelPattern, text)
  IN Splice(text, [k \in 1..Len(ms) |->
                     [start |-> ms[k].ends[4], ends |-> <<ms[k].ends[5]>>]],
            [k \in 1..Len(ms) |-> <<>>])

\* C11: when the report says the numbering is invalid, the repaired text has
\* the top-level heading numbers 1, 2, ..., n in document order, and without
\* those numbers it is the input without its foreign characters and reasoning
\* spans: titles and all other content unchanged, in the same order.
RepairRenumbers ==
  (Len(fn_out) = 1 /\ fn_pc = "repair" /\ ~fn_out[1].validation.numbering.valid) =>
    LET top == TopLevelNumbers(fn_out[1].corrected_text)
    IN /\ top = Range1(Len(top))
       /\ WithoutTopLevelNumbers(fn_out[1].corrected_text)
            = WithoutTopLevelNumbers(RemoveThink(StripForeign(fn_in)))

-----------------------------------------------------------------------------
(* The validator applied to documents with and without the required         *)
(* structure                                                                 *)

MaxReportLines == 3

\* the title and the eleven required headings, numbered 1..11
CompleteDocument ==
  <<"#", " ", "PROPUESTA", " ", "TÉCNICA", "\n">>
    \o <<"#", "#", " ", "1", ".", " ", "INTRODUCCIÓN", "\n">>
    \o <<"#", "#", " ", "2", ".", " ", "OBJETIVOS", "\n">>
    \o <<"#", "#", " ", "3", ".", " ", "ALCANCE", "\n">>
    \o <<"#", "#", " ", "4", ".", " ", "METODOLOGÍA", "\n">>
    \o <<"#", "#", " ", "5", ".", " ", "CRONOGRAMA", "\n">>
    \o <<"#", "#", " ", "6", ".", " ", "ENTREGABLES", "\n">>
    \o <<"#", "#", " ", "7", ".", " ", "RECURSOS", "\n">>
    \o <<"#", "#", " ", "8", ".", " ", "RIESGOS", "\n">>
    \o <<"#", "#", " ", "9", ".", " ", "CALIDAD", "\n">>
    \o <<"#", "#", " ", "1", "0", ".", " ", "NORMATIVAS", "\n">>
    \o <<"#", "#", " ", "1", "1", ".", " ", "EXPERIENCIA", "\n">>

\* what follows: a heading numbered 1, a heading numbered 12, a character
\* outside the allowed ranges, a text line, a line of three code fences
ReportLines ==
  { <<"#", "#", " ", "1", ".", " ", "T", "\n">>,
    <<"#", "#", " ", "1", "2", ".", " ", "T", "\n">>,
    <<"CJK">>,
    <<"x", "\n">>,
    <<"FENCE", "FENCE", "FENCE", "\n">> }

ReportInit ==
  /\ OrchIdle
  /\ StoreIdle
  /\ fn_in \in {head \o rest : head \in {<<>>, CompleteDocument},
                               rest \in DocsOf(ReportLines, MaxReportLines)}
  /\ fn_out = <<>>
  /\ fn_pc = "report"

ValidateReport ==
  /\ fn_pc = "report"
  /\ fn_out = <<>>
  /\ fn_out' = <<validate_proposal(fn_in)>>
  /\ UNCHANGED <<fn_in, fn_pc, orchVars, storeVars>>

ReportNext == ValidateReport

SpecReport == ReportInit /\ [][ReportNext]_vars

\* C12: in every report, is_valid is the conjunction of the validities of the
\* three rule groups.
OverallIsConjunction ==
  (Len(fn_out) = 1 /\ fn_pc = "report") =>
    fn_out[1].is_valid
      = (fn_out[1].structure.valid /\ fn_out[1].content.valid /\ fn_out[1].numbering.valid)

\* a report with the structure and the content valid and the numbering not
OverallIsConjunctionWitness ==
  /\ Len(fn_out) = 1 /\ fn_pc = "report"
  /\ fn_out[1].structure.valid /\ fn_out[1].content.valid
  /\ ~fn_out[1].numbering.valid /\ ~fn_out[1].is_valid

\* C28: in every report each group's valid flag is false exactly when the
\* group's list of issues is not empty; a document with more code fences than
\* MaxCodeFences has a content issue and content.valid false.
FlagsFollowIssues ==
  (Len(fn_out) = 1 /\ fn_pc = "report") =>
    /\ fn_out[1].structure.valid <=> Len(fn_out[1].structure.issues) = 0
    /\ fn_out[1].content.valid <=> Len(fn_out[1].content.issues) = 0
    /\ fn_out[1].numbering.valid <=> Len(fn_out[1].numbering.issues) = 0

\* the same of the structure and the numbering group alone
StructureAndNumberingFlagsFollowIssues ==
  (Len(fn_out) = 1 /\ fn_pc = "report") =>
    /\ fn_out[1].structure.valid <=> Len(fn_out[1].structure.issues) = 0
    /\ fn_out[1].numbering.valid <=> Len(fn_out[1].numbering.issues) = 0

\* the same of the content group on documents with at most MaxCodeFences fences
ContentFlagFollowsForbidden ==
  (Len(fn_out) = 1 /\ fn_pc = "report" /\ CodeFenceCount(fn_in) <= MaxCodeFences) =>
    (fn_out[1].content.valid <=> Len(fn_out[1].content.issues) = 0)

-----------------------------------------------------------------------------
(* The hierarchy rule of the subsection labels *)

\* the labels obey the rule: the first subsection of a chapter (the first of
\* the document included) is .1, a later one of the same chapter is one more
\* than the one before, and the chapter never decreases
ObeysHierarchy(labels) ==
  \A k \in 1..Len(labels) :
    /\ (k = 1 \/ labels[k][1] > labels[k - 1][1]) => labels[k][2] = 1
    /\ (k > 1 /\ labels[k][1] = labels[k - 1][1]) => labels[k][2] = labels[k - 1][2] + 1
    /\ k > 1 => labels[k][1] >= labels[k - 1][1]

SubsectionIssueKinds == {"subsection_not_sequential", "first_subsection_not_1", "chapter_backwards"}

\* C13: a document whose subsection labels break the hierarchy rule gets
\* numbering.valid = FALSE, and one whose labels obey it gets no subsection
\* issue.
HierarchyReported ==
  (Len(fn_out) = 1 /\ fn_pc = "validate") =>
    LET labels == SubsectionLabels(fn_in)
        report == fn_out[1]
    IN IF ObeysHierarchy(labels)
       THEN \A n \in 1..Len(report.numbering.issues) :
              report.numbering.issues[n].kind \notin SubsectionIssueKinds
       ELSE ~report.numbering.valid

-----------------------------------------------------------------------------
(* The outline: analysis_tools.generate_index cleans the backend's response, *)
(* parses it and completes or replaces it.  In a JSON text every token that  *)
(* is not punctuation, whitespace, a tag, a fence or the bare word "txt" is  *)
(* one quoted string.                                                        *)

JsonPunctuation == {"{", "}", "[", "]", ",", ":"}

IsJsonString(t) ==
  t \notin JsonPunctuation \cup Space \cup {"txt", "<think>", "</think>", "<thi", "nk>", "FENCE", "FENCEJSON"}

\* re.sub(r'^[^{]*', '', response): the text from the first "{" on
DropBeforeFirstOpen(s) ==
  LET opens == {k \in 1..Len(s) : s[k] = "{"}
  IN IF opens = {} THEN <<>> ELSE SubSeq(s, Lowest(opens), Len(s))

\* re.sub(r'[^}]*$', '', response): the text up to the last "}"
DropAfterLastClose(s) ==
  LET closes == {k \in 1..Len(s) : s[k] = "}"}
  IN IF closes = {} THEN <<>>
     ELSE SubSeq(s, 1, CHOOSE k \in closes : \A m \in closes : m <= k)

\* s.split(fence)[1].split("```")[0]: what stands between the first token of
\* fences and the next fence of either kind
BetweenFences(s, fences) ==
  LET first == Lowest({k \in 1..Len(s) : s[k] \in fences})
      later == {k \in (first + 1)..Len(s) : s[k] \in {"FENCE", "FENCEJSON"}}
  IN SubSeq(s, first + 1, IF later = {} THEN Len(s) ELSE Lowest(later) - 1)

\* lines 150-153: the text inside code fences, if there are any
StripFences(s) ==
  IF \E k \in 1..Len(s) : s[k] = "FENCEJSON" THEN Strip(BetweenFences(s, {"FENCEJSON"}))
  ELSE IF \E k \in 1..Len(s) : s[k] = "FENCE" THEN Strip(BetweenFences(s, {"FENCE", "FENCEJSON"}))
  ELSE s

\* the tokens of a JSON text: whitespace between tokens means nothing
JsonTokens(s) == SelectSeq(s, LAMBDA t : t \notin Space)

\* a dict keeps the place of a key it already has
DictSet(dict, key, value) ==
  IF \E k \in 1..Len(dict) : dict[k].key = key
  THEN [k \in 1..Len(dict) |-> IF dict[k].key = key THEN [key |-> key, value |-> value] ELSE dict[k]]
  ELSE Append(dict, [key |-> key, value |-> value])

JsonFails == [ok |-> FALSE, dict |-> <<>>]

\* the value that starts at w[i]: a string, or an array of strings;
\* [ok, value, next]
JsonValueAt(w, i) ==
  IF i > Len(w) THEN [ok |-> FALSE, value |-> <<>>, next |-> i]
  ELSE IF IsJsonString(w[i])
  THEN [ok |-> TRUE, value |-> [list |-> FALSE, items |-> <<w[i]>>], next |-> i + 1]
  ELSE IF w[i] = "[" /\ \E c \in (i + 1)..Len(w) : w[c] = "]"
  THEN LET c == Lowest({k \in (i + 1)..Len(w) : w[k] = "]"})
           inner == SubSeq(w, i + 1, c - 1)
           wellformed ==
             \/ Len(inner) = 0
             \/ /\ Len(inner) % 2 = 1
                /\ \A k \in 1..Len(inner) :
                     IF k % 2 = 1 THEN IsJsonString(inner[k]) ELSE inner[k] = ","
       IN [ok |-> wellformed,
           value |-> [list |-> TRUE, items |-> SelectSeq(inner, IsJsonString)],
           next |-> c + 1]
  ELSE [ok |-> FALSE, value |-> <<>>, next |-> i]

\* the members of an object from w[i] on, up to the "}" that ends the text
RECURSIVE JsonMembersFrom(_, _, _)
JsonMembersFrom(w, i, dict) ==
  IF i + 2 > Len(w) \/ ~IsJsonString(w[i]) \/ w[i + 1] # ":" THEN JsonFails
  ELSE LET v == JsonValueAt(w, i + 2)
           more == DictSet(dict, w[i], v.value)
       IN IF ~v.ok \/ v.next > Len(w) THEN JsonFails
          ELSE IF w[v.next] = "}" THEN [ok |-> v.next = Len(w), dict |-> more]
          ELSE IF w[v.next] = "," THEN JsonMembersFrom(w, v.next + 1, more)
          ELSE JsonFails

\* json.loads(response) of a text whose values are strings and arrays of
\* strings: the dict, or JSONDecodeError (ok = FALSE)
JsonLoads(s) ==
  LET w == JsonTokens(s)
  IN IF Len(w) < 2 \/ w[1] # "{" THEN JsonFails
     ELSE IF w[2] = "}" THEN [ok |-> Len(w) = 2, dict |-> <<>>]
     ELSE JsonMembersFrom(w, 2, <<>>)

\* json.dumps of a value, of a dict
RECURSIVE JsonDumpsItems(_)
JsonDumpsItems(items) ==
  IF Len(items) = 0 THEN <<>>
  ELSE IF Len(items) = 1 THEN <<items[1]>>
  ELSE <<items[1], ",", " ">> \o JsonDumpsItems(Tail(items))

JsonDumpsValue(value) ==
  IF value.list THEN <<"[">> \o JsonDumpsItems(value.items) \o <<"]">> ELSE value.items

RECURSIVE JsonDumpsMembers(_)
JsonDumpsMembers(dict) ==
  IF Len(dict) = 0 THEN <<>>
  ELSE <<dict[1].key, ":", " ">> \o JsonDumpsValue(dict[1].value)
       \o (IF Len(dict) = 1 THEN <<>> ELSE <<",", " ">> \o JsonDumpsMembers(Tail(dict)))

JsonDumps(dict) == <<"{">> \o JsonDumpsMembers(dict) \o <<"}">>

\* required_sections
RequiredSections ==
  <<"INTRODUCCION", "OBJETIVOS", "ALCANCE", "METODOLOGIA",
    "PLAN_DE_TRABAJO", "ENTREGABLES", "RECURSOS", "RIESGOS",
    "CALIDAD", "NORMATIVAS", "EXPERIENCIA", "ANEXOS">>

\* default_descriptions[section]
DefaultDescription(section) ==
  CASE section = "INTRODUCCION" -> "Contexto del proyecto y descripción del problema a resolver"
    [] section = "OBJETIVOS" -> "Objetivo general y objetivos específicos del proyecto"
    [] section = "ALCANCE" -> "Alcance detallado del trabajo y límites del proyecto"
    [] section = "METODOLOGIA" -> "Metodología propuesta para el desarrollo del proyecto"
    [] section = "PLAN_DE_TRABAJO" -> "Plan de trabajo y cronograma de actividades"
    [] section = "ENTREGABLES" -> "Listado detallado de entregables del proyecto"
    [] section = "RECURSOS" -> "Recursos humanos y técnicos asignados al proyecto"
    [] section = "RIESGOS" -> "Gestión de riesgos y plan de mitigación"
    [] section = "CALIDAD" -> "Plan de aseguramiento de calidad"
    [] section = "NORMATIVAS" -> "Normativas y estándares aplicables"
    [] section = "EXPERIENCIA" -> "Experiencia relevante en proyectos similares"
    [] section = "ANEXOS" -> "Anexos técnicos y documentación complementaria"

\* f"{section}_SECCION"
SeccionKey(section) ==
  CASE section = "INTRODUCCION" -> "INTRODUCCION_SECCION"
    [] section = "OBJETIVOS" -> "OBJETIVOS_SECCION"
    [] section = "ALCANCE" -> "ALCANCE_SECCION"
    [] section = "METODOLOGIA" -> "METODOLOGIA_SECCION"
    [] section = "PLAN_DE_TRABAJO" -> "PLAN_DE_TRABAJO_SECCION"
    [] section = "ENTREGABLES" -> "ENTREGABLES_SECCION"
    [] section = "RECURSOS" -> "RECURSOS_SECCION"
    [] section = "RIESGOS" -> "RIESGOS_SECCION"
    [] section = "CALIDAD" -> "CALIDAD_SECCION"
    [] section = "NORMATIVAS" -> "NORMATIVAS_SECCION"
    [] section = "EXPERIENCIA" -> "EXPERIENCIA_SECCION"
    [] section = "ANEXOS" -> "ANEXOS_SECCION"

\* default_index
DefaultIndex ==
  << [key |-> "INTRODUCCION_Y_CONTEXTO",
      value |-> [list |-> FALSE, items |-> <<"Contexto del proyecto y descripción del problema a resolver">>]],
     [key |-> "OBJETIVOS_GENERALES",
      value |-> [list |-> FALSE, items |-> <<"Objetivo general del proyecto">>]],
     [key |-> "OBJETIVOS_ESPECIFICOS",
      value |-> [list |-> FALSE, items |-> <<"Objetivos específicos detallados del proyecto">>]],
     [key |-> "ALCANCE_DEL_TRABAJO",
      value |-> [list |-> FALSE, items |-> <<"Alcance detallado del trabajo, incluyendo lo que está dentro y fuera del alcance">>]],
     [key |-> "METODOLOGIA_PROPUESTA",
      value |-> [list |-> FALSE, items |-> <<"Metodología propuesta para el desarrollo del proyecto">>]],
     [key |-> "PLAN_DE_TRABAJO_Y_CRONOGRAMA",
      value |-> [list |-> FALSE, items |-> <<"Plan detallado con fases, actividades y tiempos">>]],
     [key |-> "ENTREGABLES",
      value |-> [list |-> FALSE, items |-> <<"Listado y descripción detallada de los entregables del proyecto">>]],
     [key |-> "RECURSOS_HUMANOS_Y_TECNICOS",
      value |-> [list |-> FALSE, items |-> <<"Equipo de trabajo, roles y recursos técnicos asignados">>]],
     [key |-> "GESTION_DE_RIESGOS",
      value |-> [list |-> FALSE, items |-> <<"Identificación de riesgos y estrategias de mitigación">>]],
     [key |-> "PLAN_DE_CALIDAD",
      value |-> [list |-> FALSE, items |-> <<"Mecanismos de aseguramiento de calidad y estándares aplicables">>]],
     [key |-> "NORMATIVAS_Y_ESTANDARES_APLICABLES",
      value |-> [list |-> FALSE, items |-> <<"Cumplimiento de normativas y estándares relevantes">>]],
     [key |-> "EXPERIENCIA_RELEVANTE",
      value |-> [list |-> FALSE, items |-> <<"Experiencia en proyectos similares y capacidades demostradas">>]],
     [key |-> "ANEXOS_TECNICOS",
      value |-> [list |-> FALSE, items |-> <<"Documentación técnica complementaria">>]] >>

\* the characters of a key, word by word
KeyWords(key) ==
  CASE key = "INTRODUCCION_Y_CONTEXTO" -> <<"INTRODUCCION", "_", "Y", "_", "CONTEXTO">>
    [] key = "OBJETIVOS_GENERALES" -> <<"OBJETIVOS", "_", "GENERALES">>
    [] key = "OBJETIVOS_ESPECIFICOS" -> <<"OBJETIVOS", "_", "ESPECIFICOS">>
    [] key = "ALCANCE_DEL_TRABAJO" -> <<"ALCANCE", "_", "DEL", "_", "TRABAJO">>
    [] key = "METODOLOGIA_PROPUESTA" -> <<"METODOLOGIA", "_", "PROPUESTA">>
    [] key = "PLAN_DE_TRABAJO_Y_CRONOGRAMA" -> <<"PLAN", "_", "DE", "_", "TRABAJO", "_", "Y", "_", "CRONOGRAMA">>
    [] key = "ENTREGABLES" -> <<"ENTREGABLES">>
    [] key = "RECURSOS_HUMANOS_Y_TECNICOS" -> <<"RECURSOS", "_", "HUMANOS", "_", "Y", "_", "TECNICOS">>
    [] key = "GESTION_DE_RIESGOS" -> <<"GESTION", "_", "DE", "_", "RIESGOS">>
    [] key = "PLAN_DE_CALIDAD" -> <<"PLAN", "_", "DE", "_", "CALIDAD">>
    [] key = "NORMATIVAS_Y_ESTANDARES_APLICABLES" -> <<"NORMATIVAS", "_", "Y", "_", "ESTANDARES", "_", "APLICABLES">>
    [] key = "EXPERIENCIA_RELEVANTE" -> <<"EXPERIENCIA", "_", "RELEVANTE">>
    [] key = "ANEXOS_TECNICOS" -> <<"ANEXOS", "_", "TECNICOS">>
    [] key = "INTRODUCCION_SECCION" -> <<"INTRODUCCION", "_", "SECCION">>
    [] key = "OBJETIVOS_SECCION" -> <<"OBJETIVOS", "_", "SECCION">>
    [] key = "ALCANCE_SECCION" -> <<"ALCANCE", "_", "SECCION">>
    [] key = "METODOLOGIA_SECCION" -> <<"METODOLOGIA", "_", "SECCION">>
    [] key = "PLAN_DE_TRABAJO_SECCION" -> <<"PLAN", "_", "DE", "_", "TRABAJO", "_", "SECCION">>
    [] key = "ENTREGABLES_SECCION" -> <<"ENTREGABLES", "_", "SECCION">>
    [] key = "RECURSOS_SECCION" -> <<"RECURSOS", "_", "SECCION">>
    [] key = "RIESGOS_SECCION" -> <<"RIESGOS", "_", "SECCION">>
    [] key = "CALIDAD_SECCION" -> <<"CALIDAD", "_", "SECCION">>
    [] key = "NORMATIVAS_SECCION" -> <<"NORMATIVAS", "_", "SECCION">>
    [] key = "EXPERIENCIA_SECCION" -> <<"EXPERIENCIA", "_", "SECCION">>
    [] key = "ANEXOS_SECCION" -> <<"ANEXOS", "_", "SECCION">>
    [] key = "PLAN_DE_TRABAJO" -> <<"PLAN", "_", "DE", "_", "TRABAJO">>
    [] key = "plan de trabajo" -> <<"plan", " ", "de", " ", "trabajo">>
    [] key = "INTRODUCCIÓN" -> <<"INTRODUCCIÓN">>
    [] OTHER -> <<key>>

\* key.upper().replace(" ", "_")
NormalizedKey(key) ==
  [k \in 1..Len(KeyWords(key)) |->
     IF KeyWords(key)[k] = " " THEN "_" ELSE Upper(KeyWords(key)[k])]

\* needle in hay
Contains(hay, needle) == \E i \in 1..(Len(hay) + 1) : HasAt(hay, i, needle)

\* lines 169-173: some key contains the name of the required section
SectionFound(json_response, required) ==
  \E k \in 1..Len(json_response) :
    Contains(NormalizedKey(json_response[k].key), KeyWords(required))

\* missing_sections
MissingRequired(json_response) ==
  SelectSeq(RequiredSections, LAMBDA required : ~SectionFound(json_response, required))

\* for section in missing_sections:
\*     json_response[f"{section}_SECCION"] = default_descriptions[section]
RECURSIVE AddSections(_, _)
AddSections(json_response, missing_sections) ==
  IF Len(missing_sections) = 0 THEN json_response
  ELSE AddSections(DictSet(json_response, SeccionKey(missing_sections[1]),
                           [list |-> FALSE, items |-> <<DefaultDescription(missing_sections[1])>>]),
                   Tail(missing_sections))

\* re.sub(r',\s*}', '}', response) and re.sub(r',\s*]', ']', response)
RepairCommas(s) ==
  LET ms == FindIter(<<One({","}), Star(Space), One({"}"})>>, s)
      braces == Splice(s, ms, [k \in 1..Len(ms) |-> <<"}">>])
      ns == FindIter(<<One({","}), Star(Space), One({"]"})>>, braces)
  IN Splice(braces, ns, [k \in 1..Len(ns) |-> <<"]">>])

\* lines 141-153
CleanResponse(response) ==
  StripFences(DropAfterLastClose(DropBeforeFirstOpen(RemoveThink(response))))

\* analysis_tools.generate_index: the text it returns
generate_index(outcome) ==
  IF outcome.raises THEN JsonDumps(DefaultIndex)
  ELSE LET response == CleanResponse(outcome.text)
           loaded == JsonLoads(response)
           repaired == RepairCommas(response)
       IN IF loaded.ok
          THEN JsonDumps(AddSections(loaded.dict, MissingRequired(loaded.dict)))
          ELSE IF JsonLoads(repaired).ok THEN repaired
          ELSE JsonDumps(DefaultIndex)

MaxIndexPieces == 4

\* one member about the introduction, one about the work plan with an array
\* that has a trailing comma
IndexPieces ==
  { <<"{">>, <<"}">>, <<",">>, <<"txt">>, <<" ">>,
    <<"INTRODUCCION_Y_CONTEXTO", ":", " ", "d">>,
    <<"plan de trabajo", ":", " ", "[", "d", ",", "]">>,
    <<"INTRODUCCIÓN", ":", "d">>,
    <<"<think>">>, <<"</think>">>, <<"FENCE">> }

IndexInit ==
  /\ OrchIdle
  /\ StoreIdle
  /\ fn_in \in {Raises, Returns(JsonDumps(DefaultIndex))}
                 \cup {Returns(d) : d \in DocsOf(IndexPieces, MaxIndexPieces)}
  /\ fn_out = <<>>
  /\ fn_pc = "index"

GenerateIndex ==
  /\ fn_pc = "index"
  /\ fn_out = <<>>
  /\ fn_out' = <<generate_index(fn_in)>>
  /\ UNCHANGED <<fn_in, fn_pc, orchVars, storeVars>>

IndexNext == GenerateIndex

SpecIndex == IndexInit /\ [][IndexNext]_vars

\* C14: whatever the backend answered, the text returned parses as an object
\* whose keys cover every required section.
OutlineCoversRequired ==
  (Len(fn_out) = 1 /\ fn_pc = "index") =>
    LET parsed == JsonLoads(fn_out[1])
    IN /\ parsed.ok
       /\ \A n \in 1..Len(RequiredSections) : SectionFound(parsed.dict, RequiredSections[n])

-----------------------------------------------------------------------------
(* The chunker: ProposalEmbedding._chunk_document.  Its texts are made of    *)
(* single characters, so Len is the length in characters.                    *)

\* [A-Z]
UpperLetters ==
  {"A", "B", "C", "D", "E", "F", "G", "H", "I", "J", "K", "L", "M", "N", "O", "P", "Q", "R", "S",
   "T", "U", "V", "W", "X", "Y", "Z"}

\* section_patterns, each with the atoms that its capture group spans
SectionPatterns ==
  << \* \n#+\s+(.+?)\n
     [atoms |-> <<One(Newline), Plus({"#"}), Plus(Space), PlusNotLazy(Newline), One(Newline)>>,
      from |-> 4, to |-> 4],
     \* \n(\d+\.\s+.+?)\n
     [atoms |-> <<One(Newline), Plus(Digits), One({"."}), Plus(Space), PlusNotLazy(Newline),
                  One(Newline)>>,
      from |-> 2, to |-> 5],
     \* \n([A-Z][A-Z\s]+)\n
     [atoms |-> <<One(Newline), One(UpperLetters), Plus(UpperLetters \cup Space), One(Newline)>>,
      from |-> 2, to |-> 3],
     \* \n(.*?:)\n
     [atoms |-> <<One(Newline), StarNotLazy(Newline), One({":"}), One(Newline)>>,
      from |-> 2, to |-> 3] >>

\* re.split(pattern, s) for a pattern with one group: the text before the
\* first match, then for each match its group and the text up to the next
\* match
SplitAt(pattern, s, ms) ==
  <<SubSeq(s, 1, IF Len(ms) = 0 THEN Len(s) ELSE ms[1].start - 1)>>
  \o [n \in 1..(2 * Len(ms)) |->
        IF n % 2 = 1 THEN TakenSpan(s, ms[(n + 1) \div 2], pattern.from, pattern.to)
        ELSE SubSeq(s, MatchEnd(ms[n \div 2], ms[n \div 2].start),
                    IF (n \div 2) = Len(ms) THEN Len(s) ELSE ms[(n \div 2) + 1].start - 1)]

SplitByPattern(pattern, s) == SplitAt(pattern, s, FindIter(pattern.atoms, s))

\* lines 190-197: one title and its content join the current chunk, after the
\* current chunk has been closed if the three together exceed chunk_size
AddUnit(acc, title, content, chunk_size) ==
  LET flush == /\ Len(acc.current_chunk) + Len(title) + Len(content) > chunk_size
               /\ Len(acc.current_chunk) > 0
  IN [chunks |-> IF flush THEN Append(acc.chunks, Strip(acc.current_chunk)) ELSE acc.chunks,
      current_chunk |-> (IF flush THEN <<>> ELSE acc.current_chunk)
                        \o <<"\n">> \o title \o <<"\n">> \o content]

\* for i in range(1, len(sections), 2)
RECURSIVE AddUnits(_, _, _, _)
AddUnits(acc, split_sections, i, chunk_size) ==
  IF i > Len(split_sections) THEN acc
  ELSE AddUnits(AddUnit(acc, Strip(split_sections[i]),
                        IF i + 1 <= Len(split_sections) THEN split_sections[i + 1] ELSE <<>>, chunk_size),
                split_sections, i + 2, chunk_size)

\* if current_chunk: chunks.append(current_chunk.strip())
Closed(acc) ==
  IF Len(acc.current_chunk) > 0 THEN Append(acc.chunks, Strip(acc.current_chunk))
  ELSE acc.chunks

\* lines 179-204 for the first pattern that is found in the text
ChunkBySections(pattern, text, chunk_size) ==
  Closed(AddUnits([chunks |-> <<>>, current_chunk |-> <<>>],
                  SplitByPattern(pattern, <<"\n">> \o text), 2, chunk_size))

\* s.split(sep)
RECURSIVE SplitFrom(_, _, _)
SplitFrom(s, sep, i) ==
  LET found == {j \in i..Len(s) : HasAt(s, j, sep)}
  IN IF found = {} THEN <<SubSeq(s, i, Len(s))>>
     ELSE <<SubSeq(s, i, Lowest(found) - 1)>> \o SplitFrom(s, sep, Lowest(found) + Len(sep))

\* s[-n:]
LastChars(s, n) == IF n >= Len(s) THEN s ELSE SubSeq(s, Len(s) - n + 1, Len(s))

\* a paragraph step that forgets the paragraph which closes a chunk
AddParagraphDropping(acc, paragraph, chunk_size, chunk_overlap) ==
  LET flush == /\ Len(acc.current_chunk) + Len(paragraph) > chunk_size
               /\ Len(acc.current_chunk) > 0
  IN IF flush
     THEN [chunks |-> Append(acc.chunks, Strip(acc.current_chunk)),
           current_chunk |-> LastChars(acc.current_chunk, chunk_overlap)]
     ELSE [chunks |-> acc.chunks, current_chunk |-> acc.current_chunk \o <<"\n">> \o paragraph]

\* lines 213-222: one paragraph joins the current chunk; a chunk that the
\* paragraph would overfill is closed first and its tail opens the next one
AddParagraph(acc, paragraph, chunk_size, chunk_overlap) ==
  LET flush == /\ Len(acc.current_chunk) + Len(paragraph) > chunk_size
               /\ Len(acc.current_chunk) > 0
  IN [chunks |-> IF flush THEN Append(acc.chunks, Strip(acc.current_chunk)) ELSE acc.chunks,
      current_chunk |->
        (IF ~flush THEN acc.current_chunk
         ELSE IF chunk_overlap > 0 THEN LastChars(acc.current_chunk, chunk_overlap)
         ELSE <<>>)
        \o <<"\n">> \o paragraph]

\* the paragraphs of the text that are not blank, stripped
ParagraphsOf(text) ==
  LET stripped == SplitFrom(text, <<"\n", "\n">>, 1)
  IN SelectSeq([k \in 1..Len(stripped) |-> Strip(stripped[k])], LAMBDA p : Len(p) > 0)

RECURSIVE AddParagraphs(_, _, _, _)
AddParagraphs(acc, paragraphs, chunk_size, chunk_overlap) ==
  IF Len(paragraphs) = 0 THEN acc
  ELSE AddParagraphs(AddParagraph(acc, paragraphs[1], chunk_size, chunk_overlap),
                     Tail(paragraphs), chunk_size, chunk_overlap)

\* lines 207-226
ChunkByParagraphs(text, chunk_size, chunk_overlap) ==
  Closed(AddParagraphs([chunks |-> <<>>, current_chunk |-> <<>>], ParagraphsOf(text),
                       chunk_size, chunk_overlap))

\* lines 229-231: text[i:i + chunk_size].strip() for i in
\* range(0, len(text), chunk_size - chunk_overlap)
ChunkBySize(text, chunk_size, chunk_overlap) ==
  LET stride == chunk_size - chunk_overlap
      count == (Len(text) + stride - 1) \div stride
  IN [n \in 1..count |->
        LET i == (n - 1) * stride
        IN Strip(SubSeq(text, i + 1, IF i + chunk_size > Len(text) THEN Len(text) ELSE i + chunk_size))]

\* which mode produces the chunks
ChunkMode(text) ==
  IF \E p \in 1..Len(SectionPatterns) : Search(SectionPatterns[p].atoms, <<"\n">> \o text)
  THEN "sections"
  ELSE IF Len(ParagraphsOf(text)) > 0 THEN "paragraphs"
  ELSE "size"

\* the chunks of the first pattern of matching, of the paragraphs when no
\* pattern matches, of the slices when there is no paragraph either
ChunksBy(matching, text, chunk_size, chunk_overlap) ==
  IF matching # {}
  THEN ChunkBySections(SectionPatterns[Lowest(matching)], text, chunk_size)
  ELSE IF Len(ParagraphsOf(text)) > 0
  THEN ChunkByParagraphs(text, chunk_size, chunk_overlap)
  ELSE ChunkBySize(text, chunk_size, chunk_overlap)

\* ProposalEmbedding._chunk_document
chunk_document(text, chunk_size, chunk_overlap) ==
  SelectSeq(ChunksBy({p \in 1..Len(SectionPatterns) :
                        Search(SectionPatterns[p].atoms, <<"\n">> \o text)},
                     text, chunk_size, chunk_overlap),
            LAMBDA c : Len(Strip(c)) > 0)

MaxChunkPieces == 4

ChunkPieces ==
  { <<"a">>, <<" ">>, <<"\n">>, <<"a", "\n", "\n">>, <<"#", " ">>, <<"A">>, <<":">>,
    <<"1", ".", " ">> }

\* chunk_size and chunk_overlap, 0 < chunk_overlap < chunk_size
ChunkSizes == {[chunk_size |-> 3, chunk_overlap |-> 1], [chunk_size |-> 4, chunk_overlap |-> 2]}

ChunkInit ==
  /\ OrchIdle
  /\ StoreIdle
  /\ fn_in \in {[text |-> d, chunk_size |-> z.chunk_size, chunk_overlap |-> z.chunk_overlap] :
                  d \in DocsOf(ChunkPieces, MaxChunkPieces), z \in ChunkSizes}
  /\ fn_out = <<>>
  /\ fn_pc = "chunk"

ChunkDocument ==
  /\ fn_pc = "chunk"
  /\ fn_out = <<>>
  /\ fn_out' = <<chunk_document(fn_in.text, fn_in.chunk_size, fn_in.chunk_overlap)>>
  /\ UNCHANGED <<fn_in, fn_pc, orchVars, storeVars>>

ChunkNext == ChunkDocument

SpecChunker == ChunkInit /\ [][ChunkNext]_vars

\* C17: in the heading and the paragraph mode no chunk is longer than
\* chunk_size.
ChunksWithinSize ==
  (/\ fn_pc = "chunk"
   /\ Len(fn_out) = 1
   /\ ChunkMode(fn_in.text) \in {"sections", "paragraphs"})
  => \A n \in 1..Len(fn_out[1]) : Len(fn_out[1][n]) <= fn_in.chunk_size

\* s ends with p
EndsWith(s, p) == Len(p) <= Len(s) /\ SubSeq(s, Len(s) - Len(p) + 1, Len(s)) = p

\* the chunks hold the paragraphs, in order and each once: every chunk ends
\* with one or more of the paragraphs that follow those of the chunk before,
\* and what stands before them is no longer than the overlap and the newline
\* that joins it
RECURSIVE Rebuilds(_, _, _, _)
Rebuilds(chunks, paragraphs, chunk_overlap, first) ==
  IF Len(chunks) = 0 THEN Len(paragraphs) = 0
  ELSE \E g \in 1..Len(paragraphs) :
         LET body == Join(SubSeq(paragraphs, 1, g), <<"\n">>)
         IN /\ EndsWith(chunks[1], body)
            /\ Len(chunks[1]) - Len(body) <= (IF first THEN 0 ELSE chunk_overlap + 1)
            /\ Rebuilds(Tail(chunks), SubSeq(paragraphs, g + 1, Len(paragraphs)),
                        chunk_overlap, FALSE)

\* C18: the chunks of a non-empty text in which no heading is found hold its
\* paragraphs in source order, each once, apart from the overlap that opens a
\* chunk.
ChunksRebuildText ==
  (/\ fn_pc = "chunk"
   /\ Len(fn_out) = 1
   /\ Len(fn_in.text) > 0
   /\ ChunkMode(fn_in.text) # "sections")
  => Rebuilds(fn_out[1], ParagraphsOf(fn_in.text), fn_in.chunk_overlap, TRUE)

\* three paragraphs in two chunks, the second of which opens with an overlap
ChunksRebuildWitness ==
  /\ fn_pc = "chunk"
  /\ Len(fn_out) = 1
  /\ ChunkMode(fn_in.text) = "paragraphs"
  /\ Len(ParagraphsOf(fn_in.text)) = 3
  /\ Len(fn_out[1]) = 2
  /\ Len(fn_out[1][2]) > Len(ParagraphsOf(fn_in.text)[3])

\* C19: a text without headings and without blank lines that is longer than
\* chunk_size comes back as the slices of width chunk_size taken every
\* chunk_size - chunk_overlap characters.
SlicedWhenNoParagraphs ==
  (/\ fn_pc = "chunk"
   /\ Len(fn_out) = 1
   /\ ChunkMode(fn_in.text) # "sections"
   /\ ~Contains(fn_in.text, <<"\n", "\n">>)
   /\ Len(fn_in.text) > fn_in.chunk_size)
  => /\ fn_out[1] = SelectSeq(ChunkBySize(fn_in.text, fn_in.chunk_size, fn_in.chunk_overlap),
                              LAMBDA c : Len(c) > 0)
     /\ \A n \in 1..Len(fn_out[1]) : Len(fn_out[1][n]) <= fn_in.chunk_size

\* the characters of a text that are neither white space nor heading marks
Inked(s) == SelectSeq(s, LAMBDA t : ~IsSpace(t) /\ t # "#")

\* what stands before the first heading that the first matching pattern finds
Preamble(text) ==
  SplitByPattern(SectionPatterns[Lowest({p \in 1..Len(SectionPatterns) :
                                           Search(SectionPatterns[p].atoms, <<"\n">> \o text)})],
                 <<"\n">> \o text)[1]

\* C29: the chunks of a text in which a heading is found hold all of the
\* text, what stands before the first heading included, in source order.
HeadingChunksKeepText ==
  (/\ fn_pc = "chunk"
   /\ Len(fn_out) = 1
   /\ ChunkMode(fn_in.text) = "sections")
  => Inked(Join(fn_out[1], <<>>)) = Inked(fn_in.text)

\* the same of the texts that have nothing before their first heading
HeadingChunksKeepTextAfterHeading ==
  (/\ fn_pc = "chunk"
   /\ Len(fn_out) = 1
   /\ ChunkMode(fn_in.text) = "sections"
   /\ Len(Inked(Preamble(fn_in.text))) = 0)
  => Inked(Join(fn_out[1], <<>>)) = Inked(fn_in.text)

-----------------------------------------------------------------------------
(* The passage index: ProposalEmbedding over the corpus directory and the    *)
(* persisted vector store.  A ProposalEmbedding object lives for one call:   *)
(* its vector_db is a handle on persist_directory, or None.                  *)

\* section_mappings: the keys in the order of the dict, and their alternatives
SectionMappings ==
  << [key |-> <<"i", "n", "t", "r", "o", "d", "u", "c", "c", "i", "o", "n">>,
      alternatives |->
        << <<"i", "n", "t", "r", "o", "d", "u", "c", "c", "i", "ó", "n">>,
           <<"i", "n", "t", "r", "o", "d", "u", "c", "c", "i", "o", "n">>,
           <<"1", ".">>,
           <<"i", ".">>,
           <<"1", " ", "i", "n", "t", "r", "o", "d", "u", "c", "c", "i", "ó", "n">>,
           <<"1", ".", " ", "i", "n", "t", "r", "o", "d", "u", "c", "c", "i", "ó", "n">> >>],
     [key |-> <<"o", "b", "j", "e", "t", "i", "v", "o", "s">>,
      alternatives |->
        << <<"o", "b", "j", "e", "t", "i", "v", "o", "s">>,
           <<"2", ".">>,
           <<"i", "i", ".">>,
           <<"2", " ", "o", "b", "j", "e", "t", "i", "v", "o", "s">>,
           <<"2", ".", " ", "o", "b", "j", "e", "t", "i", "v", "o", "s">>,
           <<"o", "b", "j", "e", "t", "i", "v", "o", " ", "g", "e", "n", "e", "r", "a", "l">>,
           <<"o", "b", "j", "e", "t", "i", "v", "o", "s", " ", "e", "s", "p", "e", "c", "í", "f", "i", "c", "o", "s">> >>],
     [key |-> <<"a", "l", "c", "a", "n", "c", "e">>,
      alternatives |->
        << <<"a", "l", "c", "a", "n", "c", "e">>,
           <<"3", ".">>,
           <<"i", "i", "i", ".">>,
           <<"3", " ", "a", "l", "c", "a", "n", "c", "e">>,
           <<"3", ".", " ", "a", "l", "c", "a", "n", "c", "e">>,
           <<"a", "l", "c", "a", "n", "c", "e", " ", "d", "e", "l", " ", "t", "r", "a", "b", "a", "j", "o">>,
           <<"a", "l", "c", "a", "n", "c", "e", " ", "d", "e", "l", " ", "p", "r", "o", "y", "e", "c", "t", "o">> >>],
     [key |-> <<"m", "e", "t", "o", "d", "o", "l", "o", "g", "i", "a">>,
      alternatives |->
        << <<"m", "e", "t", "o", "d", "o", "l", "o", "g", "í", "a">>,
           <<"m", "e", "t", "o", "d", "o", "l", "o", "g", "i", "a">>,
           <<"4", ".">>,
           <<"i", "v", ".">>,
           <<"4", " ", "m", "e", "t", "o", "d", "o", "l", "o", "g", "í", "a">>,
           <<"e", "n", "f", "o", "q", "u", "e", " ", "m", "e", "t", "o", "d", "o", "l", "ó", "g", "i", "c", "o">> >>],
     [key |-> <<"p", "l", "a", "n">>,
      alternatives |->
        << <<"p", "l", "a", "n">>,
           <<"c", "r", "o", "n", "o", "g", "r", "a", "m", "a">>,
           <<"5", ".">>,
           <<"v", ".">>,
           <<"5", " ", "p", "l", "a", "n">>,
           <<"p", "l", "a", "n", "i", "f", "i", "c", "a", "c", "i", "ó", "n">>,
           <<"p", "l", "a", "n", " ", "d", "e", " ", "t", "r", "a", "b", "a", "j", "o">> >>],
     [key |-> <<"e", "n", "t", "r", "e", "g", "a", "b", "l", "e", "s">>,
      alternatives |->
        << <<"e", "n", "t", "r", "e", "g", "a", "b", "l", "e", "s">>,
           <<"6", ".">>,
           <<"v", "i", ".">>,
           <<"6", " ", "e", "n", "t", "r", "e", "g", "a", "b", "l", "e", "s">>,
           <<"p", "r", "o", "d", "u", "c", "t", "o", "s", " ", "a", " ", "e", "n", "t", "r", "e", "g", "a", "r">>,
           <<"d", "e", "l", "i", "v", "e", "r", "a", "b", "l", "e", "s">> >>],
     [key |-> <<"r", "e", "c", "u", "r", "s", "o", "s">>,
      alternatives |->
        << <<"r", "e", "c", "u", "r", "s", "o", "s">>,
           <<"7", ".">>,
           <<"v", "i", "i", ".">>,
           <<"7", " ", "r", "e", "c", "u", "r", "s", "o", "s">>,
           <<"e", "q", "u", "i", "p", "o", " ", "d", "e", " ", "t", "r", "a", "b", "a", "j", "o">>,
           <<"p", "e", "r", "s", "o", "n", "a", "l", " ", "a", "s", "i", "g", "n", "a", "d", "o">> >>],
     [key |-> <<"r", "i", "e", "s", "g", "o", "s">>,
      alternatives |->
        << <<"r", "i", "e", "s", "g", "o", "s">>,
           <<"8", ".">>,
           <<"v", "i", "i", "i", ".">>,
           <<"8", " ", "r", "i", "e", "s", "g", "o", "s">>,
           <<"g", "e", "s", "t", "i", "ó", "n", " ", "d", "e", " ", "r", "i", "e", "s", "g", "o", "s">>,
           <<"a", "n", "á", "l", "i", "s", "i", "s", " ", "d", "e", " ", "r", "i", "e", "s", "g", "o", "s">> >>],
     [key |-> <<"c", "a", "l", "i", "d", "a", "d">>,
      alternatives |->
        << <<"c", "a", "l", "i", "d", "a", "d">>,
           <<"9", ".">>,
           <<"i", "x", ".">>,
           <<"9", " ", "c", "a", "l", "i", "d", "a", "d">>,
           <<"c", "o", "n", "t", "r", "o", "l", " ", "d", "e", " ", "c", "a", "l", "i", "d", "a", "d">>,
           <<"a", "s", "e", "g", "u", "r", "a", "m", "i", "e", "n", "t", "o", " ", "d", "e", " ", "c", "a", "l", "i", "d", "a", "d">> >>],
     [key |-> <<"n", "o", "r", "m", "a", "t", "i", "v", "a", "s">>,
      alternatives |->
        << <<"n", "o", "r", "m", "a", "t", "i", "v", "a", "s">>,
           <<"n", "o", "r", "m", "a", "s">>,
           <<"1", "0", ".">>,
           <<"x", ".">>,
           <<"1", "0", " ", "n", "o", "r", "m", "a", "t", "i", "v", "a", "s">>,
           <<"e", "s", "t", "á", "n", "d", "a", "r", "e", "s">>,
           <<"r", "e", "g", "u", "l", "a", "c", "i", "o", "n", "e", "s">> >>],
     [key |-> <<"e", "x", "p", "e", "r", "i", "e", "n", "c", "i", "a">>,
      alternatives |->
        << <<"e", "x", "p", "e", "r", "i", "e", "n", "c", "i", "a">>,
           <<"1", "1", ".">>,
           <<"x", "i", ".">>,
           <<"1", "1", " ", "e", "x", "p", "e", "r", "i", "e", "n", "c", "i", "a">>,
           <<"p", "r", "o", "y", "e", "c", "t", "o", "s", " ", "s", "i", "m", "i", "l", "a", "r", "e", "s">>,
           <<"t", "r", "a", "c", "k", " ", "r", "e", "c", "o", "r", "d">> >>],
     [key |-> <<"a", "n", "e", "x", "o", "s">>,
      alternatives |->
        << <<"a", "n", "e", "x", "o", "s">>,
           <<"1", "2", ".">>,
           <<"x", "i", "i", ".">>,
           <<"1", "2", " ", "a", "n", "e", "x", "o", "s">>,
           <<"a", "p", "é", "n", "d", "i", "c", "e", "s">>,
           <<"d", "o", "c", "u", "m", "e", "n", "t", "a", "c", "i", "ó", "n", " ", "a", "d", "i", "c", "i", "o", "n", "a", "l">> >>] >>

\* str.lower() of one character
LowerChar(c) ==
  CASE c = "A" -> "a" [] c = "B" -> "b" [] c = "C" -> "c" [] c = "D" -> "d"
    [] c = "E" -> "e" [] c = "F" -> "f" [] c = "G" -> "g" [] c = "H" -> "h"
    [] c = "I" -> "i" [] c = "J" -> "j" [] c = "K" -> "k" [] c = "L" -> "l"
    [] c = "M" -> "m" [] c = "N" -> "n" [] c = "O" -> "o" [] c = "P" -> "p"
    [] c = "Q" -> "q" [] c = "R" -> "r" [] c = "S" -> "s" [] c = "T" -> "t"
    [] c = "U" -> "u" [] c = "V" -> "v" [] c = "W" -> "w" [] c = "X" -> "x"
    [] c = "Y" -> "y" [] c = "Z" -> "z" [] c = "Á" -> "á" [] c = "É" -> "é"
    [] c = "Í" -> "í" [] c = "Ó" -> "ó" [] c = "Ú" -> "ú" [] c = "Ñ" -> "ñ"
    [] OTHER -> c

\* text.lower()
LowerText(s) == [k \in 1..Len(s) |-> LowerChar(s[k])]

\* ProposalEmbedding._get_section_variants, as a set
get_section_variants(section_name) ==
  LET name == LowerText(section_name)
      applies(n) ==
        \/ Contains(name, SectionMappings[n].key)
        \/ \E a \in 1..Len(SectionMappings[n].alternatives) :
             Contains(name, SectionMappings[n].alternatives[a])
      clean_name == Strip(SelectSeq(name, LAMBDA c : c \notin Digits \cup {".", "-", ":"}))
  IN {name}
     \cup UNION {Range(SectionMappings[n].alternatives) :
                   n \in {m \in 1..Len(SectionMappings) : applies(m)}}
     \cup (IF Len(clean_name) > 0 THEN {clean_name} ELSE {})

\* n times the character c
Filler(n, c) == [k \in 1..n |-> c]

\* what a corpus file can hold: a passage about the introduction, one of two
\* paragraphs about something else, and a text too short to be indexed
IntroText == <<"I", "n", "t", "r", "o", "d", "u", "c", "c", "i", "ó", "n", " ">> \o Filler(110, "z")
PlainText == Filler(60, "w") \o <<"\n", "\n">> \o Filler(60, "v")
ShortText == Filler(50, "z")

\* file_path.suffix.lower() in ['.txt', '.pdf', '.md', '.docx'], for the
\* suffixes that are read as text
AcceptedSuffixes == {".txt", ".md", ".docx"}

CorpusFiles ==
  { [stem |-> "p1", suffix |-> ".txt", content |-> IntroText],
    [stem |-> "p2", suffix |-> ".md", content |-> PlainText],
    [stem |-> "p3", suffix |-> ".txt", content |-> ShortText],
    [stem |-> "p4", suffix |-> ".png", content |-> IntroText] }

\* _chunk_document(self, text, chunk_size=1000, chunk_overlap=200)
DefaultChunkSize == 1000
DefaultChunkOverlap == 200
\* if len(chunk.strip()) < 100: continue
MinChunkLength == 100

\* lines 104-124: the Documents of one file
DocumentsOfChunks(file, chunks) ==
  SelectSeq([i \in 1..Len(chunks) |->
               [page_content |-> chunks[i], source |-> file.stem,
                project_name |-> file.stem, chunk_id |-> i - 1]],
            LAMBDA d : Len(Strip(d.page_content)) >= MinChunkLength)

DocumentsOfFile(file) ==
  IF file.suffix \in AcceptedSuffixes
  THEN DocumentsOfChunks(file, chunk_document(file.content, DefaultChunkSize, DefaultChunkOverlap))
  ELSE <<>>

\* the Documents of each file that the corpus can hold
FileDocuments == [file \in CorpusFiles |-> DocumentsOfFile(file)]

\* lines 88-127: the Documents of the whole corpus, file after file
RECURSIVE DocumentsOf(_)
DocumentsOf(files) ==
  IF Len(files) = 0 THEN <<>>
  ELSE FileDocuments[files[1]] \o DocumentsOf(Tail(files))

\* ProposalEmbedding.__init__: vector_db is None unless persist_directory exists
VectorDbIsNone(persisted) == ~persisted.exists

\* Chroma.from_documents(documents, embedding, persist_directory): the
\* collection of persist_directory is opened, or created, and the documents
\* are added to it under fresh ids
FromDocuments(persisted, documents) ==
  [exists |-> TRUE, docs |-> persisted.docs \o documents]

\* ProposalEmbedding.index_proposals on an object just constructed over
\* persisted: the store afterwards, and whether the call raised (the store or
\* the embedding backend failed)
IndexProposals(persisted, files, force_reindex, store_up) ==
  IF ~VectorDbIsNone(persisted) /\ ~force_reindex THEN [raises |-> FALSE, persisted |-> persisted]
  ELSE IF Len(DocumentsOf(files)) = 0 THEN [raises |-> FALSE, persisted |-> persisted]
  ELSE IF ~store_up THEN [raises |-> TRUE, persisted |-> persisted]
  ELSE [raises |-> FALSE, persisted |-> FromDocuments(persisted, DocumentsOf(files))]

\* a filter that returns nothing when no candidate names the section
ChosenWithoutFallback(results, section_filtered_results) == section_filtered_results

\* lines 276-277: if not section_filtered_results and results
Chosen(results, section_filtered_results) ==
  IF Len(section_filtered_results) = 0 /\ Len(results) > 0 THEN results
  ELSE section_filtered_results

\* doc.page_content.lower() contains a variant
NamesSection(doc, section_variants) ==
  \E v \in section_variants : Contains(LowerText(doc.page_content), v)

\* the section names of the queries
SectionNames ==
  { <<"I", "n", "t", "r", "o", "d", "u", "c", "c", "i", "o", "n">>,
    <<"o", "t", "r", "o", "s">> }

\* for each section name, the Documents that pass the filter of lines 268-273
FilteredDocuments ==
  [section_name \in SectionNames |->
     {doc \in UNION {Range(FileDocuments[file]) : file \in CorpusFiles} :
        NamesSection(doc, get_section_variants(section_name))}]

\* how many candidates the search asks the store for
Fetched(k) == k * 3

\* final_results = section_filtered_results[:k]
FinalResults(chosen, k) == SubSeq(chosen, 1, IF k < Len(chosen) THEN k ELSE Len(chosen))

\* lines 283-300: one record per result
Formatted(final_results) ==
  [n \in 1..Len(final_results) |->
     [project_name |-> final_results[n].project_name,
      project_code |-> final_results[n].source,
      section_content |-> final_results[n].page_content,
      source |-> final_results[n].source]]

\* ProposalEmbedding.search_similar_content(query, section_name, k) on an
\* object over persisted; answer is what similarity_search_with_score gave
search_similar_content(persisted, answer, section_name, k) ==
  IF VectorDbIsNone(persisted) THEN <<>>
  ELSE IF answer.raises THEN <<>>
  ELSE Formatted(FinalResults(
         Chosen(answer.results,
                SelectSeq(answer.results, LAMBDA doc : doc \in FilteredDocuments[section_name])),
         k))

\* the sequences of n different numbers of S
RECURSIVE Rankings(_, _)
Rankings(S, n) ==
  IF n = 0 \/ S = {} THEN {<<>>}
  ELSE UNION {{<<x>> \o r : r \in Rankings(S \ {x}, n - 1)} : x \in S}

\* vector_db.similarity_search_with_score(query, k=n): it raises, or gives the
\* n nearest documents of the store (all of them when there are fewer) in an
\* order that the embeddings decide
Answers(persisted, n) ==
  {[raises |-> TRUE, results |-> <<>>]}
  \cup {[raises |-> FALSE, results |-> [j \in 1..Len(r) |-> persisted.docs[r[j]]]] :
          r \in Rankings(1..Len(persisted.docs),
                         IF n < Len(persisted.docs) THEN n ELSE Len(persisted.docs))}

\* find_similar_proposals: k is the default of search_similar_content
DefaultK == 3

\* if proposal_embedding.vector_db is None: index_proposals()
IndexedFirst(persisted, files, store_up) ==
  IF VectorDbIsNone(persisted) THEN IndexProposals(persisted, files, FALSE, store_up)
  ELSE [raises |-> FALSE, persisted |-> persisted]

\* a report without the except clause of lines 663-677
FindReportUncaught(persisted, embeddings_up, indexed, similar_proposals) ==
  IF ~embeddings_up \/ indexed.raises
  THEN [raises |-> TRUE, status |-> "error", proposals |-> <<>>, persisted |-> persisted]
  ELSE [raises |-> FALSE, status |-> IF Len(similar_proposals) = 0 THEN "warning" ELSE "success",
        proposals |-> similar_proposals, persisted |-> indexed.persisted]

\* the report of find_similar_proposals, with the store afterwards
FindReport(persisted, embeddings_up, indexed, similar_proposals) ==
  IF ~embeddings_up
  THEN [raises |-> FALSE, status |-> "error", proposals |-> <<>>, persisted |-> persisted]
  ELSE IF indexed.raises
  THEN [raises |-> FALSE, status |-> "error", proposals |-> <<>>, persisted |-> indexed.persisted]
  ELSE IF Len(similar_proposals) = 0
  THEN [raises |-> FALSE, status |-> "warning", proposals |-> <<>>,
        persisted |-> indexed.persisted]
  ELSE [raises |-> FALSE, status |-> "success", proposals |-> similar_proposals,
        persisted |-> indexed.persisted]

SearchedAfter(persisted, section_name, embeddings_up, answer, indexed) ==
  FindReport(persisted, embeddings_up, indexed,
             search_similar_content(indexed.persisted, answer, section_name, DefaultK))

\* find_similar_proposals(params_str): the report it returns as JSON, whether
\* it raised, and the store afterwards
find_similar_proposals(persisted, files, section_name, embeddings_up, store_up, answer) ==
  SearchedAfter(persisted, section_name, embeddings_up, answer,
                IndexedFirst(persisted, files, store_up))

\* lines 852-858: one part of the context per proposal that has content
ContextParts(proposals) ==
  LET numbered == SelectSeq([i \in 1..Len(proposals) |-> i],
                            LAMBDA i : Len(proposals[i].section_content) > 0)
  IN [n \in 1..Len(numbered) |->
        <<"#", "#", "#", " ", "Ejemplo", " ">> \o NumText(numbered[n])
        \o <<" ", "-", " ", "Proyecto", ":", " ", proposals[numbered[n]].project_name, " ", "(",
             "Código", ":", " ", proposals[numbered[n]].project_code, ")", "\n">>
        \o proposals[numbered[n]].section_content \o <<"\n">>]

\* if len(context) > 7000
MaxContextLength == 7000

\* get_similar_proposals_context on the report of find_similar_proposals
ContextOf(report) ==
  LET context == Join(ContextParts(report.proposals), <<"\n">>)
  IN IF report.status # "success" \/ Len(report.proposals) = 0 THEN <<>>
     ELSE IF Len(context) > MaxContextLength
     THEN SubSeq(context, 1, MaxContextLength) \o <<"...", "\n", "[Contexto truncado por tamaño]">>
     ELSE context

MaxFiles == 2
MaxStoreDocs == 4
MaxK == 2

\* a fresh installation: some files in the corpus directory, no store yet
StoreInit ==
  /\ OrchIdle
  /\ proposals_dir \in {files \in ListsOf(CorpusFiles, MaxFiles) :
                          \A i, j \in 1..Len(files) : i # j => files[i] # files[j]}
  /\ persist_directory = [exists |-> FALSE, docs |-> <<>>]
  /\ rebuild = NoRebuild
  /\ fn_in = [op |-> "none"]
  /\ fn_out = <<>>
  /\ fn_pc = "store"

\* a document is put under documentos/Propuestas
PutFile ==
  /\ fn_pc = "store"
  /\ Len(proposals_dir) < MaxFiles
  /\ \E file \in CorpusFiles \ Range(proposals_dir) :
       proposals_dir' = Append(proposals_dir, file)
  /\ UNCHANGED <<persist_directory, rebuild, fnVars, orchVars>>

\* a document is taken away from documentos/Propuestas
RemoveFile ==
  /\ fn_pc = "store"
  /\ \E i \in 1..Len(proposals_dir) :
       proposals_dir' = SubSeq(proposals_dir, 1, i - 1) \o SubSeq(proposals_dir, i + 1, Len(proposals_dir))
  /\ UNCHANGED <<persist_directory, rebuild, fnVars, orchVars>>

\* the build would not make the store larger than the model keeps
Fits(persisted, files) == Len(persisted.docs) + Len(DocumentsOf(files)) <= MaxStoreDocs

\* the context built from the report, and the store as the call leaves it
ContextReturned(section_name, report) ==
  /\ fn_in' = [op |-> "get_similar_proposals_context", section_name |-> section_name,
               ready |-> ~VectorDbIsNone(report.persisted)]
  /\ fn_out' = <<[raises |-> report.raises, status |-> report.status,
                  proposals |-> report.proposals, context |-> ContextOf(report)]>>
  /\ persist_directory' = report.persisted

\* get_similar_proposals_context(section_name, tdr_info), which calls
\* find_similar_proposals
GetSimilarProposalsContext ==
  /\ fn_pc = "store"
  /\ Fits(persist_directory, proposals_dir)
  /\ \E section_name \in SectionNames, embeddings_up \in BOOLEAN, store_up \in BOOLEAN :
       \E answer \in Answers(IndexedFirst(persist_directory, proposals_dir, store_up).persisted,
                             Fetched(DefaultK)) :
         ContextReturned(section_name,
                         find_similar_proposals(persist_directory, proposals_dir, section_name,
                                                embeddings_up, store_up, answer))
  /\ UNCHANGED <<proposals_dir, rebuild, fn_pc, orchVars>>

\* ProposalEmbedding().search_similar_content(query, section_name, k)
SearchSimilarContent ==
  /\ fn_pc = "store"
  /\ \E section_name \in SectionNames, k \in 1..MaxK :
       \E answer \in Answers(persist_directory, Fetched(k)) :
         /\ fn_in' = [op |-> "search_similar_content", section_name |-> section_name, k |-> k,
                      ready |-> ~VectorDbIsNone(persist_directory), fetched |-> Fetched(k),
                      answer |-> answer]
         /\ fn_out' = <<[raises |-> FALSE,
                         proposals |-> search_similar_content(persist_directory, answer,
                                                              section_name, k)]>>
  /\ UNCHANGED <<proposals_dir, persist_directory, rebuild, fn_pc, orchVars>>

\* the status reported after index_proposals, and the store it left
IndexingReported(input, done, embeddings_up, built) ==
  /\ fn_in' = input
  /\ fn_out' = <<[raises |-> FALSE,
                  status |-> IF embeddings_up /\ ~built.raises THEN done ELSE "error"]>>
  /\ persist_directory' = IF embeddings_up THEN built.persisted ELSE persist_directory

\* reindex_proposals()
ReindexProposals ==
  /\ fn_pc = "store"
  /\ Fits(persist_directory, proposals_dir)
  /\ \E embeddings_up \in BOOLEAN, store_up \in BOOLEAN :
       IndexingReported([op |-> "reindex_proposals", files |-> proposals_dir], "success",
                        embeddings_up,
                        IndexProposals(persist_directory, proposals_dir, TRUE, store_up))
  /\ UNCHANGED <<proposals_dir, rebuild, fn_pc, orchVars>>

\* initialize_proposal_database()
InitializeProposalDatabase ==
  /\ fn_pc = "store"
  /\ Fits(persist_directory, proposals_dir)
  /\ \E embeddings_up \in BOOLEAN, store_up \in BOOLEAN :
       IndexingReported([op |-> "initialize_proposal_database"], "done", embeddings_up,
                        IndexProposals(persist_directory, proposals_dir, FALSE, store_up))
  /\ UNCHANGED <<proposals_dir, rebuild, fn_pc, orchVars>>

StoreNext ==
  \/ PutFile
  \/ RemoveFile
  \/ GetSimilarProposalsContext
  \/ SearchSimilarContent
  \/ ReindexProposals
  \/ InitializeProposalDatabase

SpecStore == StoreInit /\ [][StoreNext]_vars

\* C15: a query that finds the index unready (no store has been persisted)
\* returns no proposal and does not raise, and the context handed to the
\* section generator is empty.
UnreadyGivesNothing ==
  (/\ fn_pc = "store"
   /\ Len(fn_out) = 1
   /\ fn_in.op \in {"get_similar_proposals_context", "search_similar_content"}
   /\ ~fn_in.ready)
  => /\ ~fn_out[1].raises
     /\ fn_out[1].proposals = <<>>
     /\ (fn_in.op = "get_similar_proposals_context" => fn_out[1].context = <<>>)

\* a context was asked for while the corpus held only a file too short to be
\* indexed, and a search was made on the unready index
UnreadyWitness ==
  /\ fn_pc = "store"
  /\ Len(fn_out) = 1
  /\ fn_in.op = "get_similar_proposals_context"
  /\ ~fn_in.ready
  /\ Len(proposals_dir) > 0
  /\ fn_out[1].status = "warning"

\* the candidates, of a ranking, whose text contains a variant of the name
Naming(results, section_name) ==
  SelectSeq(results, LAMBDA doc : doc \in FilteredDocuments[section_name])

\* the first k elements of a list
FirstK(list, k) == SubSeq(list, 1, IF k < Len(list) THEN k ELSE Len(list))

\* C16: a search on a ready index asks for 3k candidates and returns at most
\* k of them in their ranking order: the first k that contain a variant of the
\* section name if any candidate does, the first k candidates otherwise; it
\* returns nothing only when there is no candidate.
FilterThenFallback ==
  (/\ fn_pc = "store"
   /\ Len(fn_out) = 1
   /\ fn_in.op = "search_similar_content"
   /\ fn_in.ready
   /\ ~fn_in.answer.raises)
  => LET results == fn_in.answer.results
         naming == Naming(results, fn_in.section_name)
         returned == [n \in 1..Len(fn_out[1].proposals) |-> fn_out[1].proposals[n].section_content]
         texts(list) == [n \in 1..Len(list) |-> list[n].page_content]
     IN /\ fn_in.fetched = 3 * fn_in.k
        /\ Len(results) <= fn_in.fetched
        /\ Len(returned) <= fn_in.k
        /\ returned = texts(FirstK(IF Len(naming) > 0 THEN naming ELSE results, fn_in.k))
        /\ (Len(returned) = 0 <=> Len(results) = 0)

\* one result was asked for, the best candidate does not name the section and
\* a later one does: the later one is returned
FilterWitness ==
  /\ fn_pc = "store"
  /\ Len(fn_out) = 1
  /\ fn_in.op = "search_similar_content"
  /\ fn_in.ready
  /\ fn_in.k = 1
  /\ Len(fn_in.answer.results) > 1
  /\ fn_in.answer.results[1] \notin FilteredDocuments[fn_in.section_name]
  /\ Len(fn_out[1].proposals) = 1
  /\ fn_out[1].proposals[1].section_content # fn_in.answer.results[1].page_content

\* no candidate names the section and the first k candidates are returned
FallbackWitness ==
  /\ fn_pc = "store"
  /\ Len(fn_out) = 1
  /\ fn_in.op = "search_similar_content"
  /\ fn_in.ready
  /\ Len(fn_in.answer.results) > fn_in.k
  /\ Naming(fn_in.answer.results, fn_in.section_name) = <<>>
  /\ Len(fn_out[1].proposals) = fn_in.k

\* C20: after a forced reindex that reports success the store holds exactly
\* the Documents of the corpus as it was at the call, none at all when the
\* corpus gives none.
ReindexRebuilds ==
  (/\ fn_pc = "store"
   /\ Len(fn_out) = 1
   /\ fn_in.op = "reindex_proposals"
   /\ fn_out[1].status = "success")
  => persist_directory.docs = DocumentsOf(fn_in.files)

-----------------------------------------------------------------------------
(* The store shared by two workers: one rebuilds it (reindex_proposals, or   *)
(* the index_proposals of a first query or of initialize_proposal_database)  *)
(* while the other one searches it.  A worker can be overtaken wherever it   *)
(* waits for the embedding backend or for the disk: after it has read the    *)
(* corpus, and between Chroma.from_documents and persist().                  *)

\* index_proposals lines 67-130: the worker has decided to build and has read
\* and chunked the corpus
LoadDocuments ==
  /\ fn_pc = "shared"
  /\ rebuild.pc = "idle"
  /\ Fits(persist_directory, proposals_dir)
  /\ \E force_reindex \in BOOLEAN :
       /\ VectorDbIsNone(persist_directory) \/ force_reindex
       /\ rebuild' = [pc |-> "loaded", documents |-> DocumentsOf(proposals_dir)]
  /\ UNCHANGED <<proposals_dir, persist_directory, fnVars, orchVars>>

\* lines 132-138: Chroma.from_documents embeds the documents and adds them to
\* the collection, when there are documents and the backends answer
CreateVectorDb ==
  /\ fn_pc = "shared"
  /\ rebuild.pc = "loaded"
  /\ \E store_up \in BOOLEAN :
       rebuild' = IF Len(rebuild.documents) > 0 /\ store_up
                  THEN [rebuild EXCEPT !.pc = "built"]
                  ELSE NoRebuild
  /\ UNCHANGED <<proposals_dir, persist_directory, fnVars, orchVars>>

\* line 139: self.vector_db.persist()
Persist ==
  /\ fn_pc = "shared"
  /\ rebuild.pc = "built"
  /\ persist_directory' = FromDocuments(persist_directory, rebuild.documents)
  /\ rebuild' = NoRebuild
  /\ UNCHANGED <<proposals_dir, fnVars, orchVars>>

\* what a reader can find in persist_directory: the persisted store when no
\* rebuild has reached the collection, and any part of the documents being
\* added on top of it while one has
Visible(persisted, rebuilding) ==
  IF rebuilding.pc # "built" THEN {persisted}
  ELSE {persisted}
       \cup {[exists |-> TRUE, docs |-> persisted.docs \o SubSeq(rebuilding.documents, 1, n)] :
               n \in 0..Len(rebuilding.documents)}

\* the search of the other worker, recorded with what it read
SearchRecorded(section_name, seen, answer) ==
  /\ fn_in' = [op |-> "search_similar_content", section_name |-> section_name,
               rebuilding |-> rebuild.pc, seen |-> seen, old |-> persist_directory,
               new |-> FromDocuments(persist_directory, rebuild.documents)]
  /\ fn_out' = <<[raises |-> FALSE,
                  proposals |-> search_similar_content(seen, answer, section_name, DefaultK)]>>

\* ProposalEmbedding().search_similar_content(query, section_name) by a
\* worker of another run: nothing makes it wait for the rebuild
SharedSearch ==
  /\ fn_pc = "shared"
  /\ \E section_name \in SectionNames, seen \in Visible(persist_directory, rebuild) :
       \E answer \in Answers(seen, Fetched(DefaultK)) :
         SearchRecorded(section_name, seen, answer)
  /\ UNCHANGED <<proposals_dir, persist_directory, rebuild, fn_pc, orchVars>>

SharedInit ==
  /\ OrchIdle
  /\ proposals_dir \in {files \in ListsOf(CorpusFiles, MaxFiles) :
                          \A i, j \in 1..Len(files) : i # j => files[i] # files[j]}
  /\ persist_directory = [exists |-> FALSE, docs |-> <<>>]
  /\ rebuild = NoRebuild
  /\ fn_in = [op |-> "none"]
  /\ fn_out = <<>>
  /\ fn_pc = "shared"

SharedNext == LoadDocuments \/ CreateVectorDb \/ Persist \/ SharedSearch

SpecShared == SharedInit /\ [][SharedNext]_vars

\* C21: no search reads the store between the start of a rebuild and its
\* persist: every search sees the complete old store or the complete new one.
SearchExcludesRebuild ==
  (fn_pc = "shared" /\ Len(fn_out) = 1) =>
    /\ fn_in.rebuilding = "idle"
    /\ fn_in.seen \in {fn_in.old, fn_in.new}

-----------------------------------------------------------------------------
(* The run over the default outline of generate_index, and the validator on  *)
(* the document it assembles                                                 *)

\* list(index.keys()) of the default outline
DefaultOutlineKeys == [k \in 1..Len(DefaultIndex) |-> DefaultIndex[k].key]

\* the assembled text character by character: a key of the outline is the
\* words it is written with
Characters(text) ==
  Join([k \in 1..Len(text) |->
          IF \E n \in 1..Len(DefaultIndex) : DefaultIndex[n].key = text[k]
          THEN KeyWords(text[k]) ELSE <<text[k]>>], <<>>)

\* the calls of the backend that may raise in one run
MaxFailures == 1

OutlineBackend == {Raises, Returns(<<"txt">>)}

Failures(outcomes) == Cardinality({k \in 1..Len(outcomes) : outcomes[k] = "raised"})

OutlineInit ==
  /\ variant \in Variants
  /\ index = DefaultOutlineKeys
  /\ tdr_info \in TdrInfos
  /\ current_section_index = 0
  /\ sections = <<>>
  /\ generated_content = <<>>
  /\ proposal = <<>>
  /\ evaluation = "unset"
  /\ next_step = "generate_sections"
  /\ messages = <<>>
  /\ raised = FALSE
  /\ calls = <<>>
  /\ prompts = <<>>
  /\ fn_in = <<>>
  /\ fn_out = <<>>
  /\ fn_pc = "outline"
  /\ StoreIdle

GenerateOutlineSections ==
  /\ Routed("generate_sections")
  /\ \E outcome \in OutlineBackend :
       /\ outcome.raises => Failures(calls) < MaxFailures
       /\ Becomes(IF variant = "basic" THEN generate_sections_node(State, outcome)
                  ELSE enhanced_generate_sections_node(State, outcome))
  /\ UNCHANGED <<variant, fnVars, storeVars>>

\* ProposalValidator.validate_proposal on the document of the run
ValidateAssembled ==
  /\ fn_pc = "outline"
  /\ Len(proposal) > 0
  /\ fn_out = <<>>
  /\ fn_in' = Characters(proposal)
  /\ fn_out' = <<validate_proposal(Characters(proposal))>>
  /\ UNCHANGED <<fn_pc, orchVars, storeVars>>

OutlineNext ==
  GenerateOutlineSections \/ CombineProposal \/ EvaluateProposal \/ ValidateAssembled

SpecOutline == OutlineInit /\ [][OutlineNext]_vars

\* every section of the outline has been generated by a call that returned
AllGenerated ==
  /\ Len(calls) = Len(index)
  /\ Len(sections) = Len(index)
  /\ \A k \in 1..Len(calls) : calls[k] = "returned"

\* C30: the document assembled from a run over the default outline in which
\* every section was generated has structure.valid: every required identity
\* is found among the headings that the run wrote for the keys of the outline.
OutlineStructureValid ==
  (fn_pc = "outline" /\ Len(fn_out) = 1 /\ AllGenerated) => fn_out[1].structure.valid

====
